---- MODULE Spec2Model ----
(***************************************************************************)
(* A model of the DDoS detection pipeline of this repository:              *)
(*   src/ddos_detector.py   Flow, FlowMeter, MLClassifier, IPTablesFilter, *)
(*                          JSONLogger, DDoSDetectionSystem                *)
(*   src/ddos_detection.py  XDPFilter, RealTimeDetectionSystem             *)
(*   src/flowmeter.py       FlowMeter._get_flow_key                        *)
(*                                                                         *)
(* Time is the reading of datetime.now() in milliseconds.  An IP address   *)
(* is the tuple of its four octets; scapy hands the code its dotted text,  *)
(* which Dotted computes, and Python compares those texts as strings.      *)
(***************************************************************************)
EXTENDS Integers, Sequences, FiniteSets, TLC

(***************************************************************************)
(* Program constants.                                                      *)
(***************************************************************************)
\* FlowMeter(timeout=120), in seconds
timeout == 120
\* DDoSDetectionSystem.check_interval
check_interval == 10
\* DDoSDetectionSystem.min_packets_for_detection
min_packets_for_detection == 5
\* time.sleep(30) of cleanup_thread, in seconds
cleanup_sleep == 30
\* heuristic_detection thresholds
HighPps == 1000
SynFloor == 50
SynRatio == 10
HighBps == 10000000
SmallPkt == 100
ModeratePps == 500
FwdFloor == 100
AsymRatio == 20
ConfidenceDivisor == 3
\* IP protocol numbers as scapy reports them in ip.proto
\* src/ddos_detection.py: DDoSClassifier.heuristic_detection, packet_handler
RtHighPps == 1000
RtSmallPkt == 60
RtModeratePps == 100
RtHighBps == 10000000
RtCheckEvery == 10
RtTimeout == 60
RtCleanupSleep == 30

ProtoTCP == 6
ProtoUDP == 17
\* TCP flag bits tested by Flow.add_packet
FlagFIN == 1
FlagSYN == 2
FlagRST == 4
FlagPSH == 8
FlagACK == 16
FlagURG == 32

\* the clock counts milliseconds
TimeoutMs == timeout * 1000

(***************************************************************************)
(* Python's None, for a time, for a flow key and for an object.            *)
(***************************************************************************)
NoTime == -1
NoKey == << >>
NoObject == [none |-> TRUE]

(***************************************************************************)
(* Addresses and their dotted text, compared as Python compares str.       *)
(***************************************************************************)
\* the decimal digits of an octet as character codes ('0' is 48)
Digits(n) ==
    IF n < 10 THEN << 48 + n >>
    ELSE IF n < 100 THEN << 48 + (n \div 10), 48 + (n % 10) >>
    ELSE << 48 + (n \div 100), 48 + ((n \div 10) % 10), 48 + (n % 10) >>

\* the dotted text of an address ('.' is 46)
Dotted(a) ==
    Digits(a[1]) \o << 46 >> \o Digits(a[2]) \o << 46 >>
        \o Digits(a[3]) \o << 46 >> \o Digits(a[4])

RECURSIVE StrLess(_, _)
StrLess(s, t) ==
    IF t = << >> THEN FALSE
    ELSE IF s = << >> THEN TRUE
    ELSE IF s[1] # t[1] THEN s[1] < t[1]
    ELSE StrLess(Tail(s), Tail(t))

\* (ip1, port1) < (ip2, port2) on Python tuples of (str, int)
PairLess(ip1, port1, ip2, port2) ==
    IF ip1 # ip2 THEN StrLess(Dotted(ip1), Dotted(ip2)) ELSE port1 < port2

\* ip_address.startswith('127.') or ip_address == '0.0.0.0'
IsRefused(ip) == ip[1] = 127 \/ ip = << 0, 0, 0, 0 >>

(***************************************************************************)
(* Packets as scapy decodes them.  l3 is "ip" or "other" (no IP layer),    *)
(* l4 is "tcp", "udp" or "none"; flags is the TCP flag byte; size is       *)
(* len(packet).                                                            *)
(***************************************************************************)
Pkt(src, sport, dst, dport, proto, l4, flags, size) ==
    [l3 |-> "ip", src |-> src, dst |-> dst, proto |-> proto, l4 |-> l4,
     sport |-> sport, dport |-> dport, flags |-> flags, size |-> size]

NonIpPkt(size) ==
    [l3 |-> "other", src |-> << >>, dst |-> << >>, proto |-> 0, l4 |-> "none",
     sport |-> 0, dport |-> 0, flags |-> 0, size |-> size]

\* the packet of the opposite direction of the same conversation
Swapped(p) == [p EXCEPT !.src = p.dst, !.dst = p.src, !.sport = p.dport, !.dport = p.sport]

HasFlag(flags, bit) == (flags \div bit) % 2 = 1

(***************************************************************************)
(* FlowMeter.get_flow_key and FlowMeter.is_forward.                        *)
(* A key is <<src_ip, dst_ip, src_port, dst_port, protocol>>.              *)
(***************************************************************************)
\* the ports get_flow_key reads: of the TCP layer, else of the UDP layer, else 0, 0
PortsOf(p) == IF p.l4 \in {"tcp", "udp"} THEN << p.sport, p.dport >> ELSE << 0, 0 >>

\* the comparison of line 216 done on the addresses alone
get_flow_key_ip_only(p) ==
    IF p.l3 # "ip" THEN NoKey
    ELSE LET sp == PortsOf(p)[1]
             dp == PortsOf(p)[2]
         IN IF StrLess(Dotted(p.src), Dotted(p.dst))
            THEN << p.src, p.dst, sp, dp, p.proto >>
            ELSE << p.dst, p.src, dp, sp, p.proto >>

\* get_flow_key without the test of lines 201-202: a packet without an IP layer is
\* given the key of the unspecified address
get_flow_key_nocheck(p) ==
    IF p.l3 # "ip" THEN << << 0, 0, 0, 0 >>, << 0, 0, 0, 0 >>, 0, 0, 0 >>
    ELSE LET sp == PortsOf(p)[1]
             dp == PortsOf(p)[2]
         IN IF PairLess(p.src, sp, p.dst, dp)
            THEN << p.src, p.dst, sp, dp, p.proto >>
            ELSE << p.dst, p.src, dp, sp, p.proto >>

get_flow_key(p) ==
    IF p.l3 # "ip" THEN NoKey
    ELSE LET sp == PortsOf(p)[1]
             dp == PortsOf(p)[2]
         IN IF PairLess(p.src, sp, p.dst, dp)
            THEN << p.src, p.dst, sp, dp, p.proto >>
            ELSE << p.dst, p.src, dp, sp, p.proto >>

\* the test of line 225 done on the endpoint (address and port)
is_forward_endpoint(p, flow_key) ==
    IF p.l3 # "ip" THEN TRUE
    ELSE p.src = flow_key[1] /\ PortsOf(p)[1] = flow_key[3]

is_forward(p, flow_key) ==
    IF p.l3 # "ip" THEN TRUE ELSE p.src = flow_key[1]

(***************************************************************************)
(* Flow: the constructor, add_packet, get_duration, extract_features.      *)
(* Inter-arrival times and the duration are in microseconds as in the code *)
(* (the clock's milliseconds times 1000).                                  *)
(***************************************************************************)
\* the constructor with start_time set to the epoch instead of None (line 55)
Flow_started(src_ip, dst_ip, src_port, dst_port, protocol) ==
    [src_ip |-> src_ip, dst_ip |-> dst_ip, src_port |-> src_port,
     dst_port |-> dst_port, protocol |-> protocol,
     start_time |-> 0, last_time |-> NoTime,
     fwd_packets |-> 0, bwd_packets |-> 0,
     fwd_bytes |-> 0, bwd_bytes |-> 0,
     fwd_packet_sizes |-> << >>, bwd_packet_sizes |-> << >>,
     fwd_iat |-> << >>, bwd_iat |-> << >>,
     last_fwd_time |-> NoTime, last_bwd_time |-> NoTime,
     syn_count |-> 0, ack_count |-> 0, fin_count |-> 0,
     rst_count |-> 0, psh_count |-> 0, urg_count |-> 0]

Flow(src_ip, dst_ip, src_port, dst_port, protocol) ==
    [src_ip |-> src_ip, dst_ip |-> dst_ip, src_port |-> src_port,
     dst_port |-> dst_port, protocol |-> protocol,
     start_time |-> NoTime, last_time |-> NoTime,
     fwd_packets |-> 0, bwd_packets |-> 0,
     fwd_bytes |-> 0, bwd_bytes |-> 0,
     fwd_packet_sizes |-> << >>, bwd_packet_sizes |-> << >>,
     fwd_iat |-> << >>, bwd_iat |-> << >>,
     last_fwd_time |-> NoTime, last_bwd_time |-> NoTime,
     syn_count |-> 0, ack_count |-> 0, fin_count |-> 0,
     rst_count |-> 0, psh_count |-> 0, urg_count |-> 0]

\* 1 when the packet has a TCP layer with the bit set, else 0
FlagInc(p, bit) == IF p.l4 = "tcp" /\ HasFlag(p.flags, bit) THEN 1 ELSE 0

\* lines 86-88 with the two timestamps exchanged
Stamp_exchanged(f, timestamp) ==
    [f EXCEPT !.last_time = IF f.last_time = NoTime THEN timestamp ELSE @,
              !.start_time = timestamp]

\* lines 86-88: start_time on the first packet, last_time on every packet
Stamp(f, timestamp) ==
    [f EXCEPT !.start_time = IF f.start_time = NoTime THEN timestamp ELSE @,
              !.last_time = timestamp]

\* add_packet taking every inter-arrival time from the flow's last packet of
\* either direction
add_packet_flow_iat(f, p, timestamp, is_fwd) ==
    LET timed == Stamp(f, timestamp)
        dir == IF is_fwd
               THEN [timed EXCEPT
                        !.fwd_packets = @ + 1,
                        !.fwd_bytes = @ + p.size,
                        !.fwd_packet_sizes = Append(@, p.size),
                        !.fwd_iat = IF f.last_time # NoTime
                                    THEN Append(@, (timestamp - f.last_time) * 1000)
                                    ELSE @,
                        !.last_fwd_time = timestamp]
               ELSE [timed EXCEPT
                        !.bwd_packets = @ + 1,
                        !.bwd_bytes = @ + p.size,
                        !.bwd_packet_sizes = Append(@, p.size),
                        !.bwd_iat = IF f.last_time # NoTime
                                    THEN Append(@, (timestamp - f.last_time) * 1000)
                                    ELSE @,
                        !.last_bwd_time = timestamp]
    IN [dir EXCEPT !.syn_count = @ + FlagInc(p, FlagSYN),
                   !.ack_count = @ + FlagInc(p, FlagACK),
                   !.fin_count = @ + FlagInc(p, FlagFIN),
                   !.rst_count = @ + FlagInc(p, FlagRST),
                   !.psh_count = @ + FlagInc(p, FlagPSH),
                   !.urg_count = @ + FlagInc(p, FlagURG)]

add_packet(f, p, timestamp, is_fwd) ==
    LET timed == Stamp(f, timestamp)
        dir == IF is_fwd
               THEN [timed EXCEPT
                        !.fwd_packets = @ + 1,
                        !.fwd_bytes = @ + p.size,
                        !.fwd_packet_sizes = Append(@, p.size),
                        !.fwd_iat = IF f.last_fwd_time # NoTime
                                    THEN Append(@, (timestamp - f.last_fwd_time) * 1000)
                                    ELSE @,
                        !.last_fwd_time = timestamp]
               ELSE [timed EXCEPT
                        !.bwd_packets = @ + 1,
                        !.bwd_bytes = @ + p.size,
                        !.bwd_packet_sizes = Append(@, p.size),
                        !.bwd_iat = IF f.last_bwd_time # NoTime
                                    THEN Append(@, (timestamp - f.last_bwd_time) * 1000)
                                    ELSE @,
                        !.last_bwd_time = timestamp]
    IN [dir EXCEPT !.syn_count = @ + FlagInc(p, FlagSYN),
                   !.ack_count = @ + FlagInc(p, FlagACK),
                   !.fin_count = @ + FlagInc(p, FlagFIN),
                   !.rst_count = @ + FlagInc(p, FlagRST),
                   !.psh_count = @ + FlagInc(p, FlagPSH),
                   !.urg_count = @ + FlagInc(p, FlagURG)]

\* `if self.start_time and self.last_time`: a datetime is true whenever it is not None
get_duration(f) ==
    IF f.start_time # NoTime /\ f.last_time # NoTime
    THEN (f.last_time - f.start_time) * 1000
    ELSE 0

(***************************************************************************)
(* The features the classifier and the logger read.  A per-second rate is  *)
(* the exact quotient count / duration_sec; the snapshot keeps duration_sec *)
(* in milliseconds (rate_ms: the duration, or 0.001 s when it is 0), and   *)
(* RateExceeds compares the quotient with a threshold.                     *)
(***************************************************************************)
extract_features(f) ==
    LET duration == get_duration(f)
        total_packets == f.fwd_packets + f.bwd_packets
        total_bytes == f.fwd_bytes + f.bwd_bytes
    IN [flow_duration |-> duration,
        rate_ms |-> IF duration > 0 THEN duration \div 1000 ELSE 1,
        total_fwd_packets |-> f.fwd_packets,
        total_bwd_packets |-> f.bwd_packets,
        total_packets |-> total_packets,
        total_fwd_bytes |-> f.fwd_bytes,
        total_bwd_bytes |-> f.bwd_bytes,
        total_bytes |-> total_bytes,
        syn_flag_count |-> f.syn_count,
        ack_flag_count |-> f.ack_count,
        fin_flag_count |-> f.fin_count,
        rst_flag_count |-> f.rst_count,
        psh_flag_count |-> f.psh_count,
        urg_flag_count |-> f.urg_count,
        \* set by process_packet after extract_features returns
        src_ip |-> f.src_ip, dst_ip |-> f.dst_ip,
        src_port |-> f.src_port, dst_port |-> f.dst_port,
        protocol |-> f.protocol]

(***************************************************************************)
(* The statistics extract_features computes for one direction (lines       *)
(* 136-139 and 140-143, 149-150, 151-160, 176-177) and down_up_ratio (line *)
(* 174).  A value is the fraction <<numerator, denominator>>; a            *)
(* denominator 0 stands for what Python gives where no number exists: the  *)
(* ValueError of min() and max() of an empty list, a ZeroDivisionError,    *)
(* the nan of np.mean of an empty list.  A std is given by its square.     *)
(***************************************************************************)
NoNumber == << 0, 0 >>
Zero == << 0, 1 >>

RECURSIVE SeqSum(_)
SeqSum(q) == IF q = << >> THEN 0 ELSE Head(q) + SeqSum(Tail(q))

RECURSIVE SeqSumSq(_)
SeqSumSq(q) == IF q = << >> THEN 0 ELSE Head(q) * Head(q) + SeqSumSq(Tail(q))

ListMin(q) ==
    IF q = << >> THEN NoNumber
    ELSE << CHOOSE m \in {q[i] : i \in 1..Len(q)} : \A i \in 1..Len(q) : m <= q[i], 1 >>

ListMax(q) ==
    IF q = << >> THEN NoNumber
    ELSE << CHOOSE m \in {q[i] : i \in 1..Len(q)} : \A i \in 1..Len(q) : m >= q[i], 1 >>

Quotient(a, b) == IF b = 0 THEN NoNumber ELSE << a, b >>

ListMean(q) == Quotient(SeqSum(q), Len(q))

\* np.std squared: (n * sum of squares - square of the sum) / n^2
ListStd(q) == Quotient(Len(q) * SeqSumSq(q) - SeqSum(q) * SeqSum(q), Len(q) * Len(q))

\* the statistics of a direction computed without the tests for an empty direction
direction_features_unguarded(packets, bytes, sizes, iat, rate_ms) ==
    [pkt_len_min |-> ListMin(sizes),
     pkt_len_max |-> ListMax(sizes),
     pkt_len_mean |-> ListMean(sizes),
     pkt_len_std |-> ListStd(sizes),
     packets_per_sec |-> Quotient(packets * 1000, rate_ms),
     iat_total |-> << SeqSum(iat), 1 >>,
     iat_mean |-> ListMean(iat),
     iat_std |-> ListStd(iat),
     iat_min |-> ListMin(iat),
     iat_max |-> ListMax(iat),
     seg_size_avg |-> Quotient(bytes, packets)]

direction_features(packets, bytes, sizes, iat, rate_ms) ==
    [pkt_len_min |-> IF sizes # << >> THEN ListMin(sizes) ELSE Zero,
     pkt_len_max |-> IF sizes # << >> THEN ListMax(sizes) ELSE Zero,
     pkt_len_mean |-> IF sizes # << >> THEN ListMean(sizes) ELSE Zero,
     pkt_len_std |-> IF Len(sizes) > 1 THEN ListStd(sizes) ELSE Zero,
     packets_per_sec |-> Quotient(packets * 1000, rate_ms),
     iat_total |-> IF iat # << >> THEN << SeqSum(iat), 1 >> ELSE Zero,
     iat_mean |-> IF iat # << >> THEN ListMean(iat) ELSE Zero,
     iat_std |-> IF Len(iat) > 1 THEN ListStd(iat) ELSE Zero,
     iat_min |-> IF iat # << >> THEN ListMin(iat) ELSE Zero,
     iat_max |-> IF iat # << >> THEN ListMax(iat) ELSE Zero,
     seg_size_avg |-> IF packets > 0 THEN Quotient(bytes, packets) ELSE Zero]

\* duration_sec of line 130 in milliseconds
duration_ms(f) == IF get_duration(f) > 0 THEN get_duration(f) \div 1000 ELSE 1

fwd_features(f) ==
    direction_features(f.fwd_packets, f.fwd_bytes, f.fwd_packet_sizes, f.fwd_iat, duration_ms(f))

bwd_features(f) ==
    direction_features(f.bwd_packets, f.bwd_bytes, f.bwd_packet_sizes, f.bwd_iat, duration_ms(f))

down_up_ratio(f) ==
    IF f.fwd_packets > 0 THEN Quotient(f.bwd_packets, f.fwd_packets) ELSE Zero

\* count / (rate_ms / 1000) > perSec, on exact rationals
RateExceeds(count, rate_ms, perSec) ==
    LET a == count * 1000
    IN (a \div rate_ms > perSec) \/ (a \div rate_ms = perSec /\ a % rate_ms # 0)

(***************************************************************************)
(* MLClassifier.heuristic_detection.  A result is                          *)
(*   [is_malicious, label, confidence, reasons]                            *)
(* with confidence the fraction <<numerator, denominator>>.                *)
(***************************************************************************)
Min(a, b) == IF a < b THEN a ELSE b

RuleHighRate(x) == RateExceeds(x.total_packets, x.rate_ms, HighPps)

RuleSynFlood(x) ==
    x.syn_flag_count > SynFloor
    /\ (x.ack_flag_count = 0 \/ x.syn_flag_count > SynRatio * (x.ack_flag_count + 1))

RuleBandwidth(x) == RateExceeds(x.total_bytes, x.rate_ms, HighBps)

\* avg_pkt_size = total_bytes / total_packets, 0 for no packets
RuleSmallFast(x) ==
    /\ (x.total_packets = 0 \/ x.total_bytes < SmallPkt * x.total_packets)
    /\ RateExceeds(x.total_packets, x.rate_ms, ModeratePps)

RuleAsymmetric(x) ==
    x.total_fwd_packets > FwdFloor
    /\ (x.total_bwd_packets = 0 \/ x.total_fwd_packets > AsymRatio * (x.total_bwd_packets + 1))

\* line 363 without the min
Confidence_uncapped(k) == << k, ConfidenceDivisor >>

\* line 363: min(len(reasons) / 3, 1.0)
Confidence(k) == << Min(k, ConfidenceDivisor), ConfidenceDivisor >>

\* heuristic_detection without its fifth rule
heuristic_detection_four(x) ==
    LET reasons ==
            (IF RuleHighRate(x) THEN << "High packet rate" >> ELSE << >>)
         \o (IF RuleSynFlood(x) THEN << "SYN flood pattern" >> ELSE << >>)
         \o (IF RuleBandwidth(x) THEN << "High bandwidth" >> ELSE << >>)
         \o (IF RuleSmallFast(x) THEN << "Small packets + high rate" >> ELSE << >>)
        is_malicious == Len(reasons) > 0
    IN [is_malicious |-> is_malicious,
        label |-> IF is_malicious THEN "DDoS" ELSE "BENIGN",
        confidence |-> Confidence(Len(reasons)),
        reasons |-> IF is_malicious THEN reasons ELSE << >>]

heuristic_detection(x) ==
    LET reasons ==
            (IF RuleHighRate(x) THEN << "High packet rate" >> ELSE << >>)
         \o (IF RuleSynFlood(x) THEN << "SYN flood pattern" >> ELSE << >>)
         \o (IF RuleBandwidth(x) THEN << "High bandwidth" >> ELSE << >>)
         \o (IF RuleSmallFast(x) THEN << "Small packets + high rate" >> ELSE << >>)
         \o (IF RuleAsymmetric(x) THEN << "Asymmetric" >> ELSE << >>)
        is_malicious == Len(reasons) > 0
    IN [is_malicious |-> is_malicious,
        label |-> IF is_malicious THEN "DDoS" ELSE "BENIGN",
        confidence |-> Confidence(Len(reasons)),
        reasons |-> IF is_malicious THEN reasons ELSE << >>]

(***************************************************************************)
(* MLClassifier.predict.  The model, the scaler and the label encoder are  *)
(* external: model is what they do on this call: "fail" (an exception at   *)
(* any step), or the label and the confidence they return.                 *)
(***************************************************************************)
ModelOutcomes ==
    { [kind |-> "fail", label |-> "", confidence |-> << 0, 1 >>],
      [kind |-> "ok", label |-> "BENIGN", confidence |-> << 9, 10 >>],
      [kind |-> "ok", label |-> "DDoS", confidence |-> << 9, 10 >>],
      \* a model without predict_proba: confidence stays 0.0
      [kind |-> "ok", label |-> "DDoS", confidence |-> << 0, 1 >>] }

\* predict with an except clause that answers BENIGN
predict_nofallback(use_heuristics, x, model) ==
    IF use_heuristics
    THEN heuristic_detection(x)
    ELSE IF model.kind = "fail"
    THEN [is_malicious |-> FALSE, label |-> "BENIGN", confidence |-> << 0, 1 >>,
          reasons |-> << >>]
    ELSE [is_malicious |-> model.label # "BENIGN",
          label |-> model.label,
          confidence |-> model.confidence,
          reasons |-> << >>]

predict(use_heuristics, x, model) ==
    IF use_heuristics \/ model.kind = "fail"
    THEN heuristic_detection(x)
    ELSE [is_malicious |-> model.label # "BENIGN",
          label |-> model.label,
          confidence |-> model.confidence,
          reasons |-> << >>]

(***************************************************************************)
(* IPTablesFilter.  block_ip runs `iptables -A INPUT -s ip -j DROP`; the   *)
(* outcome of that command is "ok" (exit code 0), "nonzero" or "timeout"   *)
(* (subprocess.TimeoutExpired, caught as Exception).  The result is the    *)
(* new blocked set, the return value, and the commands invoked: how many,  *)
(* and which backends in order (tried).                                    *)
(***************************************************************************)
CmdOutcomes == {"ok", "nonzero", "timeout"}

\* block_ip without the early return of lines 376-377
block_ip_nocheck(blocked, ip, outcome) ==
    IF IsRefused(ip)
    THEN [blocked |-> blocked, ret |-> FALSE, cmds |-> 0, tried |-> << >>]
    ELSE IF outcome = "ok"
    THEN [blocked |-> blocked \cup {ip}, ret |-> TRUE, cmds |-> 1, tried |-> << "iptables" >>]
    ELSE [blocked |-> blocked, ret |-> FALSE, cmds |-> 1, tried |-> << "iptables" >>]

\* block_ip without the test of the return code (line 391)
block_ip_anycode(blocked, ip, outcome) ==
    IF ip \in blocked
    THEN [blocked |-> blocked, ret |-> TRUE, cmds |-> 0, tried |-> << >>]
    ELSE IF IsRefused(ip)
    THEN [blocked |-> blocked, ret |-> FALSE, cmds |-> 0, tried |-> << >>]
    ELSE IF outcome # "timeout"
    THEN [blocked |-> blocked \cup {ip}, ret |-> TRUE, cmds |-> 1, tried |-> << "iptables" >>]
    ELSE [blocked |-> blocked, ret |-> FALSE, cmds |-> 1, tried |-> << "iptables" >>]

block_ip(blocked, ip, outcome) ==
    IF ip \in blocked
    THEN [blocked |-> blocked, ret |-> TRUE, cmds |-> 0, tried |-> << >>]
    ELSE IF IsRefused(ip)
    THEN [blocked |-> blocked, ret |-> FALSE, cmds |-> 0, tried |-> << >>]
    ELSE IF outcome = "ok"
    THEN [blocked |-> blocked \cup {ip}, ret |-> TRUE, cmds |-> 1, tried |-> << "iptables" >>]
    ELSE [blocked |-> blocked, ret |-> FALSE, cmds |-> 1, tried |-> << "iptables" >>]

\* unblock_ip: the command's exit code is not read; a timeout is caught
unblock_ip(blocked, ip, outcome) ==
    IF outcome = "timeout"
    THEN [blocked |-> blocked, ret |-> FALSE, cmds |-> 1, tried |-> << "iptables" >>]
    ELSE [blocked |-> blocked \ {ip}, ret |-> TRUE, cmds |-> 1, tried |-> << "iptables" >>]

\* The lists that enumerate a set once each, in any order (list(a_set))
Enumerations(S) ==
    {q \in [1..Cardinality(S) -> S] : \A i, j \in 1..Cardinality(S) : q[i] = q[j] => i = j}

Range(q) == {q[i] : i \in 1..Len(q)}

\* a variant that hands out the set object itself
list_blocked_live(blocked) ==
    {[live |-> TRUE, items |-> q] : q \in Enumerations(blocked)}

\* list_blocked: list(self.blocked_ips), a new list object.  `live` says
\* whether the object returned is the filter's own collection; `items` is the
\* content of a list of its own.
list_blocked(blocked) ==
    {[live |-> FALSE, items |-> q] : q \in Enumerations(blocked)}

(***************************************************************************)
(* XDPFilter (src/ddos_detection.py).  block_ip tries xdp-filter when the  *)
(* filter is enabled, then iptables; both run with check=True, so a        *)
(* non-zero exit raises and is caught like a timeout.                      *)
(***************************************************************************)
block_ip_iptables(blocked, ip, outcome) ==
    IF outcome = "ok"
    THEN [blocked |-> blocked \cup {ip}, ret |-> TRUE, cmds |-> 1, tried |-> << "iptables" >>]
    ELSE [blocked |-> blocked, ret |-> FALSE, cmds |-> 1, tried |-> << "iptables" >>]

\* a variant without the fallback: a failed xdp-filter call is the answer
xdp_block_ip_nofallback(blocked, enabled, ip, xdpOutcome, iptOutcome) ==
    IF ip \in blocked
    THEN [blocked |-> blocked, ret |-> TRUE, cmds |-> 0, tried |-> << >>]
    ELSE IF enabled
    THEN [blocked |-> IF xdpOutcome = "ok" THEN blocked \cup {ip} ELSE blocked,
          ret |-> xdpOutcome = "ok", cmds |-> 1, tried |-> << "xdp" >>]
    ELSE block_ip_iptables(blocked, ip, iptOutcome)

xdp_block_ip(blocked, enabled, ip, xdpOutcome, iptOutcome) ==
    IF ip \in blocked
    THEN [blocked |-> blocked, ret |-> TRUE, cmds |-> 0, tried |-> << >>]
    ELSE IF enabled /\ xdpOutcome = "ok"
    THEN [blocked |-> blocked \cup {ip}, ret |-> TRUE, cmds |-> 1, tried |-> << "xdp" >>]
    ELSE LET r == block_ip_iptables(blocked, ip, iptOutcome)
         IN [r EXCEPT !.cmds = @ + (IF enabled THEN 1 ELSE 0),
                      !.tried = (IF enabled THEN << "xdp" >> ELSE << >>) \o @]

\* XDPFilter.load: `xdp-filter load` with check=True; enabled is set on success only
xdp_load(enabled, outcome) == enabled \/ outcome = "ok"

(***************************************************************************)
(* src/ddos_detection.py: the flow statistics, the features and the        *)
(* classifier of RealTimeDetectionSystem.  A key is the packet's own       *)
(* <<src_ip, dst_ip, sport, dport, protocol>>: one entry per direction.    *)
(***************************************************************************)
\* the entry the defaultdict makes for a key it does not hold (None is -1)
flow_stats_default ==
    [packet_count |-> 0, byte_count |-> 0, start_time |-> NoTime, last_seen |-> NoTime,
     protocol |-> -1, flags |-> {}]

\* the key update_flow computes, None for a packet without an IP layer
rt_flow_key(p) ==
    IF p.l3 # "ip" THEN NoKey
    ELSE IF p.l4 = "tcp" THEN << p.src, p.dst, p.sport, p.dport, ProtoTCP >>
    ELSE IF p.l4 = "udp" THEN << p.src, p.dst, p.sport, p.dport, ProtoUDP >>
    ELSE << p.src, p.dst, 0, 0, p.proto >>

\* update_flow on the dict stats for a packet with an IP layer, at time at
update_flow(stats, p, at) ==
    LET key == rt_flow_key(p)
        old == IF key \in DOMAIN stats THEN stats[key] ELSE flow_stats_default
        new == [old EXCEPT !.start_time = IF @ = NoTime THEN at ELSE @,
                           !.last_seen = at,
                           !.packet_count = @ + 1,
                           !.byte_count = @ + p.size,
                           !.protocol = key[5],
                           !.flags = IF p.l4 = "tcp" /\ p.flags # 0
                                     THEN @ \cup {p.flags} ELSE @]
    IN [x \in DOMAIN stats \cup {key} |-> IF x = key THEN new ELSE stats[x]]

\* FlowMeter.extract_features; rate_ms is the duration in milliseconds, 0.001 s for 0
rt_extract_features(d) ==
    [rate_ms |-> IF d.last_seen - d.start_time = 0 THEN 1 ELSE d.last_seen - d.start_time,
     packet_count |-> d.packet_count,
     byte_count |-> d.byte_count,
     protocol |-> d.protocol]

\* DDoSClassifier.heuristic_detection
rt_heuristic_detection(x) ==
    \/ RateExceeds(x.packet_count, x.rate_ms, RtHighPps)
    \/ (x.byte_count < RtSmallPkt * x.packet_count
          /\ RateExceeds(x.packet_count, x.rate_ms, RtModeratePps))
    \/ RateExceeds(x.byte_count, x.rate_ms, RtHighBps)

\* DDoSClassifier.predict: the heuristics without a model or when the model raises,
\* else `prediction == 1`
rt_predict(has_model, x, model) ==
    IF ~has_model \/ model.kind = "fail"
    THEN rt_heuristic_detection(x)
    ELSE model.label # "BENIGN"

(***************************************************************************)
(* FlowMeter.cleanup_old_flows: the test of lines 252-254.                 *)
(***************************************************************************)
\* the test with >= in place of >
IsExpired_ge(last_time, at) == last_time # NoTime /\ at - last_time >= TimeoutMs

IsExpired(last_time, at) == last_time # NoTime /\ at - last_time > TimeoutMs

(***************************************************************************)
(* JSONLogger.log_detection: the entry appended to logger.logs.  The       *)
(* confidence is round(confidence, 4), kept in units of 0.0001; the three  *)
(* rounded rates of the 'features' sub-record are left out (they are       *)
(* determined by the duration and the totals, which are kept).             *)
(***************************************************************************)
\* round(n / d, 4) in units of 0.0001
Round4(c) == (2 * 10000 * c[1] + c[2]) \div (2 * c[2])

log_entry(x, at, label, confidence, action, reasons) ==
    [timestamp |-> at,
     src_ip |-> x.src_ip, dst_ip |-> x.dst_ip,
     src_port |-> x.src_port, dst_port |-> x.dst_port,
     protocol |-> x.protocol,
     prediction |-> label,
     confidence |-> Round4(confidence),
     action |-> action,
     features |-> [flow_duration |-> x.flow_duration,
                   total_packets |-> x.total_packets,
                   total_bytes |-> x.total_bytes,
                   syn_count |-> x.syn_flag_count,
                   ack_count |-> x.ack_flag_count],
     reasons |-> reasons]

(***************************************************************************)
(* Bounds of the model and the inputs it draws.                            *)
(***************************************************************************)
\* packets handled in a run that follows flows to their sampling points
MaxDeepPkts == 20
\* packets handled in a run that exercises eviction
MaxShallowPkts == 3
\* advances of the clock by ShortTick / by the flow timeout in a run
MaxShortTicks == 1
MaxLongTicks == 1
\* a short advance of the clock, in milliseconds
ShortTick == 10
LongTick == TimeoutMs
\* packets of the end-to-end run, and the step of its clock in milliseconds
E2EPkts == 60
E2EStep == 200
\* packets handled in a run of RealTimeDetectionSystem
MaxRtPkts == 20
\* records appended to, and writes of, a JSONLogger used on its own
MaxLogged == 3
\* packets handled in a run that goes on while flows become idle
LivePkts == 3
\* packets captured and clock advances in a run of flowmeter.FlowMeter
MaxFmPkts == 3
MaxFmTicks == 2
\* packets captured and clock advances in a run of RealTimeDetectionSystem
\* with its cleanup thread
MaxRacePkts == 3
MaxRaceTicks == 2
\* direct calls of unblock_ip in a run
MaxUnblocks == 1
MaxFlushes == 3

HostA == << 10, 0, 0, 1 >>
HostB == << 10, 0, 0, 9 >>
HostC == << 10, 0, 0, 10 >>
Loopback == << 127, 0, 0, 1 >>
Unspecified == << 0, 0, 0, 0 >>

\* a SYN from A to B: A's endpoint is the smaller one, the flow is A's
PktAB == Pkt(HostA, 5000, HostB, 80, ProtoTCP, "tcp", FlagSYN, 60)
\* a second conversation between the same hosts
PktAB2 == Pkt(HostA, 5001, HostB, 80, ProtoTCP, "tcp", FlagSYN, 60)
\* B's reply in the first conversation
PktBA == Pkt(HostB, 80, HostA, 5000, ProtoTCP, "tcp", FlagSYN + FlagACK, 1500)
\* a SYN from B to A: the sender's endpoint is the larger one
PktBtoA == Pkt(HostB, 5000, HostA, 80, ProtoTCP, "tcp", FlagSYN, 60)
\* a datagram from C to B
PktCB == Pkt(HostC, 53, HostB, 53, ProtoUDP, "udp", 0, 120)
\* a SYN sent from the loopback address
PktLoop == Pkt(Loopback, 5000, Loopback, 80, ProtoTCP, "tcp", FlagSYN, 60)
\* an ARP frame
PktArp == NonIpPkt(42)

\* the inputs of a run: the packets that can arrive, how many are handled, the step of
\* the clock and how often it advances by the step and by the flow timeout, and
\* whether a model is loaded (else the classifier uses the heuristic rules)
Scenario(menu, pkts, step, shortTicks, longTicks, ml) ==
    [menu |-> menu, pkts |-> pkts, step |-> step, shortTicks |-> shortTicks,
     longTicks |-> longTicks, ml |-> ml]

\* runs that follow one or two flows through their sampling points
DeepScenarios ==
    { Scenario({PktAB}, MaxDeepPkts, ShortTick, 0, 1, FALSE),
      Scenario({PktAB, PktAB2}, MaxDeepPkts, ShortTick, 0, 0, FALSE),
      Scenario({PktBtoA}, check_interval, ShortTick, 0, 0, FALSE),
      Scenario({PktLoop}, check_interval, ShortTick, 0, 0, FALSE),
      Scenario({PktAB}, MaxDeepPkts, ShortTick, 0, 0, TRUE),
      \* a flow that is flagged and then left idle until it is evicted
      Scenario({PktAB}, check_interval, ShortTick, 1, 1, FALSE),
      \* flows of two addresses that are both flagged
      Scenario({PktAB, PktCB}, MaxDeepPkts, ShortTick, 0, 0, FALSE) }

\* runs that exercise creation, both directions, non-IP input and eviction
ShallowScenarios ==
    { Scenario({PktAB, PktCB}, MaxShallowPkts, ShortTick, MaxShortTicks, MaxLongTicks, FALSE),
      Scenario({PktAB, PktBA, PktArp}, MaxShallowPkts, ShortTick, 0, 1, FALSE) }

(***************************************************************************)
(* Python dicts as functions.                                              *)
(***************************************************************************)
EmptyMap == [k \in {} |-> NoObject]
MapPut(m, k, v) == [x \in DOMAIN m \cup {k} |-> IF x = k THEN v ELSE m[x]]
MapDel(m, k) == [x \in DOMAIN m \ {k} |-> m[x]]
SeqDel(q, k) == SelectSeq(q, LAMBDA x : x # k)

(***************************************************************************)
(* The state of a run of DDoSDetectionSystem (src/ddos_detector.py).       *)
(***************************************************************************)
VARIABLES
    env,              \* the inputs of the run (a Scenario), fixed
    now,              \* datetime.now(), in milliseconds
    running,          \* the global `running`
    mpc,              \* main thread: "sniff", "stopping" (sniff has returned), "stopped"
    flows,            \* FlowMeter.flows: key -> Flow
    flowOrder,        \* the keys of FlowMeter.flows in the dict's (insertion) order
    packet_count,     \* DDoSDetectionSystem.packet_count
    detection_count,  \* DDoSDetectionSystem.detection_count
    malicious_ips,    \* DDoSDetectionSystem.malicious_ips
    blocked_ips,      \* IPTablesFilter.blocked_ips
    logs,             \* JSONLogger.logs
    saved,            \* the log file: whether it exists, and its content
    intake,           \* the capture callback's position and locals
    cleaner,          \* the cleanup thread's position and locals
    obs,              \* what the last steps did (history, read by the properties only)
    rt,               \* a run of RealTimeDetectionSystem (src/ddos_detection.py)
    probe             \* direct calls of a function or a filter: arguments and results

vars == << env, now, running, mpc, flows, flowOrder, packet_count, detection_count,
           malicious_ips, blocked_ips, logs, saved, intake, cleaner, obs, rt, probe >>

tableVars == << flows, flowOrder >>
detectVars == << detection_count, malicious_ips, blocked_ips, logs >>

\* JSONLogger.save: json.dump(self.logs) over the file
NoFile == [exists |-> FALSE, content |-> << >>]

\* a variant that writes the newest record only
save_newest(entries) ==
    [exists |-> TRUE,
     content |-> IF entries = << >> THEN << >> ELSE << entries[Len(entries)] >>]

save(entries) == [exists |-> TRUE, content |-> entries]

IntakeIdle ==
    [pc |-> "idle", pkt |-> NoObject, key |-> NoKey, ts |-> NoTime, fwd |-> FALSE,
     held |-> NoObject]

CleanerIdle(pc, sleptAt) ==
    [pc |-> pc, sleptAt |-> sleptAt, at |-> NoTime, size |-> 0, pos |-> 0,
     expired |-> << >>, todo |-> << >>, ret |-> -1,
     pre |-> EmptyMap, quiet |-> FALSE]

ObsInit ==
    [sample |-> NoObject,      \* the last sampling point of the handler
     call |-> NoObject,        \* the last call of IPTablesFilter.block_ip
     nonip |-> FALSE,          \* the packet of the last callback had no IP layer
     late |-> FALSE,           \* a callback has begun after running was set to False
     classify |-> NoObject,    \* the predict call of the last sampling point
     modelFailed |-> FALSE,    \* the model path has failed in a predict call
     dup |-> FALSE,            \* a command was run for an address already blocked
     failed |-> {}]            \* the addresses a block attempt has failed for

\* RealTimeDetectionSystem.__init__ and the module's globals; last is history: the
\* record appended last and the block_ip call that followed it
RtInit ==
    [pc |-> "start", running |-> TRUE, enabled |-> FALSE,
     flows |-> [k \in {} |-> flow_stats_default],
     packet_count |-> 0, detection_count |-> 0,
     malicious_ips |-> {}, blocked_ips |-> {},
     logs |-> << >>, saved |-> NoFile, last |-> NoObject]

\* no direct call yet: p is the packet get_flow_key is applied to, last and prev are
\* the last two calls of a filter's block_ip
ProbeInit ==
    [p |-> NoObject, done |-> FALSE, key |-> NoKey, swappedKey |-> NoKey,
     fwd |-> FALSE, swappedFwd |-> FALSE,
     last |-> NoObject, prev |-> NoObject,
     subject |-> "none", unblocked |-> NoObject, listed |-> NoObject,
     \* history: the times the log file has been written
     flushes |-> 0,
     \* history: the calls of unblock_ip made on the running system
     unblocks |-> 0,
     \* a snapshot given to heuristic_detection, and what it returned
     x |-> NoObject, result |-> NoObject]

InitRun(scenarios) ==
    /\ env \in scenarios
    /\ rt = RtInit
    /\ now = 0
    /\ running = TRUE
    /\ mpc = "sniff"
    /\ flows = EmptyMap
    /\ flowOrder = << >>
    /\ packet_count = 0
    /\ detection_count = 0
    /\ malicious_ips = {}
    /\ blocked_ips = {}
    /\ logs = << >>
    /\ saved = NoFile
    /\ intake = IntakeIdle
    /\ cleaner = CleanerIdle("loop", 0)
    /\ obs = ObsInit

InitWith(scenarios) ==
    /\ probe = ProbeInit
    /\ InitRun(scenarios)

Init == InitWith(DeepScenarios \cup ShallowScenarios)

(***************************************************************************)
(* The clock.  A callback and a pass of the cleanup take microseconds, and *)
(* the clock of the model moves in steps of ShortTick and LongTick: it     *)
(* moves while sniff waits for a packet and the cleanup thread is asleep   *)
(* or has ended.                                                           *)
(***************************************************************************)
AtRest ==
    /\ mpc = "sniff"
    /\ intake.pc = "idle"
    /\ cleaner.pc \in {"sleep", "exit", "dead"}

TickShort ==
    /\ AtRest
    /\ (now % LongTick) \div env.step < env.shortTicks
    /\ now' = now + env.step
    /\ UNCHANGED << rt, probe, env, running, mpc, tableVars, packet_count, detectVars, saved,
                    intake, cleaner, obs >>

TickLong ==
    /\ AtRest
    /\ now \div LongTick < env.longTicks
    /\ now' = now + LongTick
    /\ UNCHANGED << rt, probe, env, running, mpc, tableVars, packet_count, detectVars, saved,
                    intake, cleaner, obs >>

(***************************************************************************)
(* The capture callback: DDoSDetectionSystem.process_packet, which calls   *)
(* FlowMeter.process_packet.  The code takes no lock, so the cleanup       *)
(* thread can run between a handler's reads and writes of FlowMeter.flows: *)
(* the handler is three steps, cut where it touches the dict.              *)
(*   IntakeBegin   lines 501-509 and 229-239: the running test, the key,   *)
(*                 the timestamp, `if flow_key not in self.flows: insert`  *)
(*   IntakeLookup  line 241: flow = self.flows[flow_key]                   *)
(*   IntakeAdd     line 242 and 511-571: add_packet on the flow held, the  *)
(*                 sampling test, classification, blocking and logging     *)
(* sniff evaluates stop_filter (not running) when the callback returns; a  *)
(* true result, or an exception of the callback, ends sniff.               *)
(***************************************************************************)
AfterCallback == IF running THEN mpc ELSE "stopping"

\* lines 501-502 left out: the callback goes on whatever `running` is
Accepting_always == TRUE

\* lines 501-502: `if not running: return`
Accepting == running

IntakeBegin(p) ==
    /\ mpc = "sniff"
    /\ intake.pc = "idle"
    /\ packet_count < env.pkts
    /\ cleaner' = [cleaner EXCEPT !.quiet = FALSE]
    /\ IF ~Accepting
       THEN /\ mpc' = "stopping"
            /\ obs' = [obs EXCEPT !.late = TRUE]
            /\ UNCHANGED << tableVars, packet_count, intake >>
       ELSE /\ packet_count' = packet_count + 1
            /\ obs' = [obs EXCEPT !.sample = NoObject, !.nonip = (p.l3 # "ip"),
                                  !.late = @ \/ ~running, !.classify = NoObject]
            /\ mpc' = mpc
            /\ LET key == get_flow_key(p)
               IN IF key = NoKey
                  THEN UNCHANGED << tableVars, intake >>
                  ELSE /\ intake' = [pc |-> "lookup", pkt |-> p, key |-> key, ts |-> now,
                                     fwd |-> is_forward(p, key), held |-> NoObject]
                       /\ IF key \notin DOMAIN flows
                          THEN /\ flows' = MapPut(flows, key,
                                                  Flow(key[1], key[2], key[3], key[4], key[5]))
                               /\ flowOrder' = Append(flowOrder, key)
                          ELSE UNCHANGED tableVars
    /\ UNCHANGED << rt, probe, env, now, running, detectVars, saved >>

IntakeLookup ==
    /\ mpc = "sniff"
    /\ intake.pc = "lookup"
    /\ cleaner' = [cleaner EXCEPT !.quiet = FALSE]
    /\ IF intake.key \in DOMAIN flows
       THEN /\ intake' = [intake EXCEPT !.pc = "add", !.held = flows[intake.key]]
            /\ mpc' = mpc
       ELSE \* KeyError: the callback raises, sniff ends, start() runs stop()
            /\ intake' = IntakeIdle
            /\ mpc' = "stopping"
    /\ UNCHANGED << rt, probe, env, now, running, tableVars, packet_count, detectVars, saved, obs >>

\* lines 511-517 without the test of lines 516-517
AtSamplingPoint_min(f) ==
    f.fwd_packets + f.bwd_packets >= min_packets_for_detection

\* lines 511-517: the flow is classified at this packet
AtSamplingPoint(f) ==
    LET total_pkts == f.fwd_packets + f.bwd_packets
    IN total_pkts >= min_packets_for_detection /\ total_pkts % check_interval = 0

\* lines 536-565 with the test of line 539 left out
Detect_noflag(f, result, outcome) ==
    LET x == extract_features(f)
        src_ip == f.src_ip
        r == block_ip(blocked_ips, src_ip, outcome)
    IN IF result.is_malicious
       THEN [flagged |-> malicious_ips \cup {src_ip},
             count |-> detection_count + 1,
             blocked |-> r.blocked,
             logs |-> Append(logs, log_entry(x, now, result.label, result.confidence,
                                             IF r.ret THEN "blocked" ELSE "detected",
                                             result.reasons)),
             call |-> [ip |-> src_ip, inSet |-> src_ip \in blocked_ips,
                       ret |-> r.ret, cmds |-> r.cmds]]
       ELSE [flagged |-> malicious_ips, count |-> detection_count,
             blocked |-> blocked_ips, logs |-> logs, call |-> NoObject]

\* lines 536-565 with the sender of the packet at hand for line 537's flow.src_ip
Detect_sender(f, result, outcome) ==
    LET x == extract_features(f)
        src_ip == intake.pkt.src
        r == block_ip(blocked_ips, src_ip, outcome)
    IN IF result.is_malicious /\ src_ip \notin malicious_ips
       THEN [flagged |-> malicious_ips \cup {src_ip},
             count |-> detection_count + 1,
             blocked |-> r.blocked,
             logs |-> Append(logs, log_entry(x, now, result.label, result.confidence,
                                             IF r.ret THEN "blocked" ELSE "detected",
                                             result.reasons)),
             call |-> [ip |-> src_ip, inSet |-> src_ip \in blocked_ips,
                       ret |-> r.ret, cmds |-> r.cmds]]
       ELSE [flagged |-> malicious_ips, count |-> detection_count,
             blocked |-> blocked_ips, logs |-> logs, call |-> NoObject]

\* lines 536-565: what a verdict does to the flagged set, the filter and the log
Detect(f, result, outcome) ==
    LET x == extract_features(f)
        src_ip == f.src_ip
        r == block_ip(blocked_ips, src_ip, outcome)
    IN IF result.is_malicious /\ src_ip \notin malicious_ips
       THEN [flagged |-> malicious_ips \cup {src_ip},
             count |-> detection_count + 1,
             blocked |-> r.blocked,
             logs |-> Append(logs, log_entry(x, now, result.label, result.confidence,
                                             IF r.ret THEN "blocked" ELSE "detected",
                                             result.reasons)),
             call |-> [ip |-> src_ip, inSet |-> src_ip \in blocked_ips,
                       ret |-> r.ret, cmds |-> r.cmds]]
       ELSE [flagged |-> malicious_ips, count |-> detection_count,
             blocked |-> blocked_ips, logs |-> logs, call |-> NoObject]

\* the history a sampling point leaves
Observe(f, result, d) ==
    [sample |-> [key |-> intake.key, src |-> f.src_ip, sender |-> intake.pkt.src,
                 total |-> f.fwd_packets + f.bwd_packets,
                 live |-> intake.key \in DOMAIN flows,
                 malicious |-> result.is_malicious,
                 confidence |-> result.confidence,
                 flagged |-> f.src_ip \in malicious_ips,
                 wasBlocked |-> f.src_ip \in blocked_ips,
                 hadFailed |-> f.src_ip \in obs.failed,
                 attempted |-> d.call # NoObject,
                 ret |-> IF d.call # NoObject THEN d.call.ret ELSE FALSE,
                 logged |-> Len(d.logs) - Len(logs)],
     call |-> IF d.call # NoObject THEN d.call ELSE obs.call,
     nonip |-> obs.nonip,
     late |-> obs.late,
     classify |-> obs.classify,
     modelFailed |-> obs.modelFailed,
     dup |-> obs.dup \/ (d.call # NoObject /\ d.call.inSet /\ d.call.cmds > 0),
     failed |-> IF d.call # NoObject /\ ~d.call.ret /\ d.call.cmds > 0
                THEN obs.failed \cup {f.src_ip} ELSE obs.failed]

\* history of a predict call: whether the model path was taken and how it
\* ended, what predict returned, what heuristic_detection gives for the same
\* snapshot, and whether the model path had failed in an earlier call
Classified(f, model, result) ==
    [kind |-> IF env.ml THEN model.kind ELSE "none",
     result |-> result,
     heuristic |-> heuristic_detection(extract_features(f)),
     afterFailure |-> obs.modelFailed]

IntakeAdd ==
    /\ mpc = "sniff"
    /\ intake.pc = "add"
    /\ cleaner' = [cleaner EXCEPT !.quiet = FALSE]
    /\ intake' = IntakeIdle
    /\ mpc' = AfterCallback
    /\ LET f == add_packet(intake.held, intake.pkt, intake.ts, intake.fwd)
       IN /\ flows' = IF intake.key \in DOMAIN flows
                      THEN [flows EXCEPT ![intake.key] = f]
                      ELSE flows
          /\ IF ~AtSamplingPoint(f)
             THEN UNCHANGED << detectVars, obs >>
             ELSE \E model \in IF env.ml THEN ModelOutcomes ELSE {CHOOSE m \in ModelOutcomes : TRUE} :
                    LET result == predict(~env.ml, extract_features(f), model)
                    IN \E outcome \in IF result.is_malicious THEN CmdOutcomes ELSE {"ok"} :
                         LET d == Detect(f, result, outcome)
                         IN /\ malicious_ips' = d.flagged
                            /\ detection_count' = d.count
                            /\ blocked_ips' = d.blocked
                            /\ logs' = d.logs
                            /\ obs' = [Observe(f, result, d) EXCEPT
                                         !.classify = Classified(f, model, result),
                                         !.modelFailed = @ \/ (env.ml /\ model.kind = "fail")]
    /\ UNCHANGED << rt, probe, env, now, running, flowOrder, packet_count, saved >>

(***************************************************************************)
(* The cleanup thread: DDoSDetectionSystem.cleanup_thread, which calls     *)
(* FlowMeter.cleanup_old_flows every 30 seconds.                           *)
(*   CleanupLoop    line 583: `while running`, then time.sleep(30)         *)
(*   CleanupStart   lines 248-251: the sleep is over; now, expired = [],   *)
(*                  the iterator of self.flows.items()                     *)
(*   CleanupScan    lines 251-255: one turn of the for loop.  The dict's   *)
(*                  iterator raises RuntimeError when the dict's size has  *)
(*                  changed since the iterator was made; nothing catches   *)
(*                  it, and the thread ends                                *)
(*   CleanupDelete  lines 257-258: one turn of the del loop                *)
(*   CleanupReturn  lines 260 and 585-587                                  *)
(* pre and quiet are history: the table when the pass started, and whether *)
(* the capture callback has been idle ever since.                          *)
(***************************************************************************)
CleanupLoop ==
    /\ mpc # "stopped"
    /\ cleaner.pc = "loop"
    /\ cleaner' = IF running THEN CleanerIdle("sleep", now) ELSE CleanerIdle("exit", NoTime)
    /\ UNCHANGED << rt, probe, env, now, running, mpc, tableVars, packet_count, detectVars, saved,
                    intake, obs >>

CleanupStart ==
    /\ mpc # "stopped"
    /\ cleaner.pc = "sleep"
    /\ now - cleaner.sleptAt >= cleanup_sleep * 1000
    /\ cleaner' = [cleaner EXCEPT !.pc = "scan", !.at = now, !.size = Len(flowOrder),
                                  !.pos = 0, !.expired = << >>, !.todo = << >>,
                                  !.pre = flows, !.quiet = intake.pc = "idle"]
    /\ UNCHANGED << rt, probe, env, now, running, mpc, tableVars, packet_count, detectVars, saved,
                    intake, obs >>

CleanupScan ==
    /\ mpc # "stopped"
    /\ cleaner.pc = "scan"
    /\ cleaner' =
         IF Len(flowOrder) # cleaner.size
         THEN CleanerIdle("dead", NoTime)
         ELSE IF cleaner.pos >= Len(flowOrder)
         THEN [cleaner EXCEPT !.pc = "delete", !.todo = cleaner.expired]
         ELSE LET key == flowOrder[cleaner.pos + 1]
              IN [cleaner EXCEPT
                    !.pos = @ + 1,
                    !.expired = IF IsExpired(flows[key].last_time, cleaner.at)
                                THEN Append(@, key) ELSE @]
    /\ UNCHANGED << rt, probe, env, now, running, mpc, tableVars, packet_count, detectVars, saved,
                    intake, obs >>

\* the del loop of lines 257-258, forgetting the flagged state of the flow's address too
CleanupDelete_unflag ==
    /\ mpc # "stopped"
    /\ cleaner.pc = "delete"
    /\ cleaner.todo # << >>
    /\ flows' = MapDel(flows, Head(cleaner.todo))
    /\ flowOrder' = SeqDel(flowOrder, Head(cleaner.todo))
    /\ malicious_ips' = malicious_ips \ {Head(cleaner.todo)[1]}
    /\ cleaner' = [cleaner EXCEPT !.todo = Tail(@)]
    /\ UNCHANGED << rt, probe, env, now, running, mpc, packet_count, detection_count,
                    blocked_ips, logs, saved, intake, obs >>

\* the del loop of lines 257-258, lifting the block of the flow's address too
CleanupDelete_unblock ==
    /\ mpc # "stopped"
    /\ cleaner.pc = "delete"
    /\ cleaner.todo # << >>
    /\ flows' = MapDel(flows, Head(cleaner.todo))
    /\ flowOrder' = SeqDel(flowOrder, Head(cleaner.todo))
    /\ blocked_ips' = blocked_ips \ {Head(cleaner.todo)[1]}
    /\ cleaner' = [cleaner EXCEPT !.todo = Tail(@)]
    /\ UNCHANGED << rt, probe, env, now, running, mpc, packet_count, detection_count,
                    malicious_ips, logs, saved, intake, obs >>

\* the del loop of lines 257-258 with the del left out
CleanupDelete_skip ==
    /\ mpc # "stopped"
    /\ cleaner.pc = "delete"
    /\ cleaner.todo # << >>
    /\ cleaner' = [cleaner EXCEPT !.todo = Tail(@)]
    /\ UNCHANGED << rt, probe, env, now, running, mpc, tableVars, packet_count, detectVars,
                    saved, intake, obs >>

CleanupDelete ==
    /\ mpc # "stopped"
    /\ cleaner.pc = "delete"
    /\ cleaner.todo # << >>
    /\ flows' = MapDel(flows, Head(cleaner.todo))
    /\ flowOrder' = SeqDel(flowOrder, Head(cleaner.todo))
    /\ cleaner' = [cleaner EXCEPT !.todo = Tail(@)]
    /\ UNCHANGED << rt, probe, env, now, running, mpc, packet_count, detectVars, saved, intake, obs >>

CleanupReturn ==
    /\ mpc # "stopped"
    /\ cleaner.pc = "delete"
    /\ cleaner.todo = << >>
    /\ cleaner' = [cleaner EXCEPT !.pc = "returned", !.ret = Len(cleaner.expired)]
    /\ UNCHANGED << rt, probe, env, now, running, mpc, tableVars, packet_count, detectVars, saved,
                    intake, obs >>

\* back to line 583
CleanupAgain ==
    /\ mpc # "stopped"
    /\ cleaner.pc = "returned"
    /\ cleaner' = CleanerIdle("loop", NoTime)
    /\ UNCHANGED << rt, probe, env, now, running, mpc, tableVars, packet_count, detectVars, saved,
                    intake, obs >>

(***************************************************************************)
(* Shutdown.  signal_handler clears `running`; sniff returns when its      *)
(* stop_filter is true after a callback, when the callback raises, or when *)
(* the capture fails or ends; start() then runs stop(), which clears       *)
(* `running` and saves the log, and the process exits (the cleanup thread  *)
(* is a daemon).                                                           *)
(***************************************************************************)
Signal ==
    /\ mpc = "sniff"
    /\ running
    /\ running' = FALSE
    /\ UNCHANGED << rt, probe, env, now, mpc, tableVars, packet_count, detectVars, saved,
                    intake, cleaner, obs >>

SniffEnds ==
    /\ mpc = "sniff"
    /\ intake.pc = "idle"
    /\ mpc' = "stopping"
    /\ UNCHANGED << rt, probe, env, now, running, tableVars, packet_count, detectVars, saved,
                    intake, cleaner, obs >>

\* a variant of stop() whose flush empties the in-memory log
Stop_clear ==
    /\ mpc = "stopping"
    /\ running' = FALSE
    /\ saved' = save(logs)
    /\ logs' = << >>
    /\ probe' = [probe EXCEPT !.flushes = @ + 1]
    /\ mpc' = "stopped"
    /\ UNCHANGED << rt, env, now, tableVars, packet_count, detection_count, malicious_ips,
                    blocked_ips, intake, cleaner, obs >>

Stop ==
    /\ mpc = "stopping"
    /\ running' = FALSE
    /\ saved' = save(logs)
    /\ probe' = [probe EXCEPT !.flushes = @ + 1]
    /\ mpc' = "stopped"
    /\ UNCHANGED << rt, env, now, tableVars, packet_count, detectVars, intake, cleaner, obs >>

Next ==
    \/ \E p \in env.menu : IntakeBegin(p)
    \/ IntakeLookup
    \/ IntakeAdd
    \/ CleanupLoop
    \/ CleanupStart
    \/ CleanupScan
    \/ CleanupDelete
    \/ CleanupReturn
    \/ CleanupAgain
    \/ TickShort
    \/ TickLong
    \/ Signal
    \/ SniffEnds
    \/ Stop

Spec == Init /\ [][Next]_vars

TypeOK ==
    /\ mpc \in {"sniff", "stopping", "stopped"}
    /\ running \in BOOLEAN
    /\ intake.pc \in {"idle", "lookup", "add"}
    /\ cleaner.pc \in {"loop", "sleep", "scan", "delete", "returned", "exit", "dead"}
    /\ Len(flowOrder) = Cardinality(DOMAIN flows)
    /\ \A i \in 1..Len(flowOrder) : flowOrder[i] \in DOMAIN flows

(***************************************************************************)
(* The filter's methods called on system.filter from outside the pipeline  *)
(* (an operator, a test), while the pipeline runs.                         *)
(***************************************************************************)
OpsAddrs == {HostA, HostB}

OpsScenarios == { Scenario({PktAB}, check_interval, ShortTick, 0, 0, FALSE) }

CallObs(ip, r) ==
    [obs EXCEPT !.call = [ip |-> ip, inSet |-> ip \in blocked_ips,
                          ret |-> r.ret, cmds |-> r.cmds],
                !.dup = @ \/ (ip \in blocked_ips /\ r.cmds > 0),
                !.failed = IF ~r.ret /\ r.cmds > 0 THEN @ \cup {ip} ELSE @]

ApiBlock(ip, outcome) ==
    /\ mpc # "stopped"
    /\ LET r == block_ip(blocked_ips, ip, outcome)
       IN /\ blocked_ips' = r.blocked
          /\ obs' = CallObs(ip, r)
    /\ UNCHANGED << rt, probe, env, now, running, mpc, tableVars, packet_count, detection_count,
                    malicious_ips, logs, saved, intake, cleaner >>

ApiUnblock(ip, outcome) ==
    /\ mpc # "stopped"
    /\ blocked_ips' = unblock_ip(blocked_ips, ip, outcome).blocked
    /\ UNCHANGED << rt, probe, env, now, running, mpc, tableVars, packet_count, detection_count,
                    malicious_ips, logs, saved, intake, cleaner, obs >>

InitOps == InitWith(OpsScenarios)

NextOps ==
    \/ \E p \in env.menu : IntakeBegin(p)
    \/ IntakeLookup
    \/ IntakeAdd
    \/ \E ip \in OpsAddrs, outcome \in CmdOutcomes : ApiBlock(ip, outcome)
    \/ \E ip \in OpsAddrs, outcome \in CmdOutcomes : ApiUnblock(ip, outcome)
    \/ Signal
    \/ SniffEnds
    \/ Stop

SpecOps == InitOps /\ [][NextOps]_vars

(***************************************************************************)
(* The whole system with direct calls of the filter: the capture callback, *)
(* the cleanup thread, the clock, the shutdown, and block_ip / unblock_ip  *)
(* called on the filter while a flagged flow becomes idle and is evicted.  *)
(***************************************************************************)
TermScenarios == { Scenario({PktAB}, check_interval, ShortTick, 1, 1, FALSE) }

InitTerm == InitWith(TermScenarios)

\* unblock_ip called on the system's filter, the call recorded
TermUnblock(ip, outcome) ==
    /\ probe.unblocks < MaxUnblocks
    /\ blocked_ips' = unblock_ip(blocked_ips, ip, outcome).blocked
    /\ probe' = [probe EXCEPT !.unblocks = @ + 1,
                              !.unblocked = [ip |-> ip,
                                             inSet |-> ip \in blocked_ips,
                                             inSetAfter |-> ip \in blocked_ips']]
    /\ UNCHANGED << rt, env, now, running, mpc, tableVars, packet_count, detection_count,
                    malicious_ips, logs, saved, intake, cleaner, obs >>

NextTerm ==
    \/ Next
    \/ \E ip \in OpsAddrs, outcome \in CmdOutcomes : TermUnblock(ip, outcome)

SpecTerm == InitTerm /\ [][NextTerm]_vars

(***************************************************************************)
(* The end-to-end run: E2EPkts packets of one 5-tuple, all with SYN and    *)
(* none with ACK, handled within a second.                                 *)
(***************************************************************************)
E2EScenarios ==
    { Scenario({PktAB}, E2EPkts, E2EStep, MaxShortTicks, 0, FALSE),
      Scenario({PktBtoA}, E2EPkts, E2EStep, MaxShortTicks, 0, FALSE) }

InitE2E == InitWith(E2EScenarios)

NextE2E ==
    \/ \E p \in env.menu : IntakeBegin(p)
    \/ IntakeLookup
    \/ IntakeAdd
    \/ CleanupLoop
    \/ TickShort

SpecE2E == InitE2E /\ [][NextE2E]_vars

(***************************************************************************)
(* A run that goes on: LivePkts packets of two flows while the clock       *)
(* advances twice by the flow timeout, so that a flow last seen at time 0  *)
(* is idle for more than the timeout at the end.  The cleanup thread, the  *)
(* callback under way and the clock are scheduled fairly: a thread that    *)
(* can take its next step takes it.                                        *)
(***************************************************************************)
LiveScenarios == { Scenario({PktAB, PktCB}, LivePkts, ShortTick, 0, 2, FALSE) }

InitLive == InitWith(LiveScenarios)

NextLive ==
    \/ \E p \in env.menu : IntakeBegin(p)
    \/ IntakeLookup
    \/ IntakeAdd
    \/ CleanupLoop
    \/ CleanupStart
    \/ CleanupScan
    \/ CleanupDelete
    \/ CleanupReturn
    \/ CleanupAgain
    \/ TickLong

FairLive ==
    /\ WF_vars(IntakeLookup)
    /\ WF_vars(IntakeAdd)
    /\ WF_vars(CleanupLoop)
    /\ WF_vars(CleanupStart)
    /\ WF_vars(CleanupScan)
    /\ WF_vars(CleanupDelete)
    /\ WF_vars(CleanupReturn)
    /\ WF_vars(CleanupAgain)
    /\ WF_vars(TickLong)

SpecLive == InitLive /\ [][NextLive]_vars /\ FairLive

(***************************************************************************)
(* The variables of a run of DDoSDetectionSystem but the filter's set.     *)
(***************************************************************************)
runVars == << env, now, running, mpc, tableVars, packet_count, detection_count,
              malicious_ips, logs, saved, intake, cleaner, obs >>

(***************************************************************************)
(* get_flow_key and is_forward applied to a packet and to the packet of    *)
(* the opposite direction.                                                 *)
(***************************************************************************)
KeyAddrs == {HostA, HostB, HostC}
KeyPorts == {80, 5000}
\* TCP, UDP and ICMP (no ports)
KeyLayers == { << ProtoTCP, "tcp" >>, << ProtoUDP, "udp" >>, << 1, "none" >> }

KeyPkts ==
    { Pkt(a, sp, b, dp, l[1], l[2], FlagSYN, 60) :
        a \in KeyAddrs, b \in KeyAddrs, sp \in KeyPorts, dp \in KeyPorts, l \in KeyLayers }
    \cup {PktArp}

InitKey ==
    /\ InitRun(OpsScenarios)
    /\ probe \in {[ProbeInit EXCEPT !.p = p] : p \in KeyPkts}

KeyApply ==
    /\ probe.p # NoObject
    /\ ~probe.done
    /\ LET key == get_flow_key(probe.p)
           swappedKey == get_flow_key(Swapped(probe.p))
       IN probe' = [probe EXCEPT !.done = TRUE,
                                 !.key = key,
                                 !.swappedKey = swappedKey,
                                 !.fwd = is_forward(probe.p, key),
                                 !.swappedFwd = is_forward(Swapped(probe.p), swappedKey)]
    /\ UNCHANGED << rt, blocked_ips, runVars >>

NextKey == KeyApply

SpecKey == InitKey /\ [][NextKey]_vars

(***************************************************************************)
(* Calls of the two filters' methods one after the other:                  *)
(* IPTablesFilter (src/ddos_detector.py) on its blocked_ips, XDPFilter     *)
(* (src/ddos_detection.py) on the module's global blocked_ips.             *)
(***************************************************************************)
FilterAddrs == {HostA, HostB, Loopback, Unspecified}

\* history: a call of block_ip on the set `before`, its return value, the
\* commands it ran with the outcome of each, and the set it left
FilterCall(filter, ip, before, enabled, xdpOutcome, iptOutcome, r) ==
    [filter |-> filter, ip |-> ip, ret |-> r.ret, cmds |-> r.cmds,
     tried |-> r.tried,
     outcomes |-> [i \in 1..Len(r.tried) |->
                      IF r.tried[i] = "xdp" THEN xdpOutcome ELSE iptOutcome],
     enabled |-> enabled,
     inSet |-> ip \in before, inSetAfter |-> ip \in r.blocked,
     unchanged |-> r.blocked = before]

\* what is kept of the call before the last one
Earlier(call) ==
    IF call = NoObject THEN NoObject
    ELSE [filter |-> call.filter, ip |-> call.ip, ret |-> call.ret, cmds |-> call.cmds]

FilterBlock(ip, outcome) ==
    LET r == block_ip(blocked_ips, ip, outcome)
    IN /\ probe.subject = "iptables"
       /\ blocked_ips' = r.blocked
       /\ probe' = [probe EXCEPT !.prev = Earlier(probe.last),
                                 !.last = FilterCall("iptables", ip, blocked_ips, FALSE,
                                                    "none", outcome, r),
                                 !.unblocked = NoObject]
       /\ UNCHANGED << rt, runVars >>

FilterUnblock(ip, outcome) ==
    LET r == unblock_ip(blocked_ips, ip, outcome)
    IN /\ probe.subject = "iptables"
       /\ blocked_ips' = r.blocked
       /\ probe' = [probe EXCEPT !.prev = NoObject, !.last = NoObject,
                                 !.unblocked = [ip |-> ip, outcome |-> outcome,
                                                ret |-> r.ret,
                                                inSet |-> ip \in blocked_ips,
                                                inSetAfter |-> ip \in r.blocked]]
       /\ UNCHANGED << rt, runVars >>

\* The content of the object a list_blocked call returned, as its holder sees it
View(l) == IF l.live THEN blocked_ips ELSE Range(l.items)

\* a caller keeps what list_blocked returned; expect is what the caller has
\* seen in it and put into it
FilterList ==
    /\ probe.subject = "iptables"
    /\ \E l \in list_blocked(blocked_ips) :
          probe' = [probe EXCEPT !.prev = NoObject, !.last = NoObject,
                                 !.unblocked = NoObject,
                                 !.listed = [live |-> l.live, items |-> l.items,
                                             expect |-> Range(l.items),
                                             changed |-> FALSE]]
    /\ UNCHANGED << rt, blocked_ips, runVars >>

\* the caller adds an address to the object it was given
FilterListChange(ip) ==
    /\ probe.subject = "iptables"
    /\ probe.listed # NoObject
    /\ ~probe.listed.changed
    /\ ip \notin probe.listed.expect
    /\ probe' = [probe EXCEPT !.listed.expect = @ \cup {ip},
                              !.listed.changed = TRUE,
                              !.listed.items = IF probe.listed.live THEN @ ELSE Append(@, ip)]
    /\ blocked_ips' = IF probe.listed.live THEN blocked_ips \cup {ip} ELSE blocked_ips
    /\ UNCHANGED << rt, runVars >>

FilterXdpLoad(outcome) ==
    /\ probe.subject = "xdp"
    /\ rt' = [rt EXCEPT !.enabled = xdp_load(@, outcome)]
    /\ UNCHANGED << probe, blocked_ips, runVars >>

FilterXdpBlock(ip, xdpOutcome, iptOutcome) ==
    LET r == xdp_block_ip(rt.blocked_ips, rt.enabled, ip, xdpOutcome, iptOutcome)
    IN /\ probe.subject = "xdp"
       /\ rt' = [rt EXCEPT !.blocked_ips = r.blocked]
       /\ probe' = [probe EXCEPT !.prev = Earlier(probe.last),
                                 !.last = FilterCall("xdp", ip, rt.blocked_ips, rt.enabled,
                                                    xdpOutcome, iptOutcome, r)]
       /\ UNCHANGED << blocked_ips, runVars >>

\* one filter object is exercised in a run
InitFilter ==
    /\ InitRun(OpsScenarios)
    /\ probe \in {[ProbeInit EXCEPT !.subject = f] : f \in {"iptables", "xdp"}}

NextFilter ==
    \/ \E ip \in FilterAddrs, outcome \in CmdOutcomes : FilterBlock(ip, outcome)
    \/ \E ip \in FilterAddrs, outcome \in CmdOutcomes : FilterUnblock(ip, outcome)
    \/ FilterList
    \/ \E ip \in FilterAddrs : FilterListChange(ip)
    \/ \E outcome \in CmdOutcomes : FilterXdpLoad(outcome)
    \/ \E ip \in FilterAddrs, xdpOutcome \in CmdOutcomes, iptOutcome \in CmdOutcomes :
          FilterXdpBlock(ip, xdpOutcome, iptOutcome)

SpecFilter == InitFilter /\ [][NextFilter]_vars

(***************************************************************************)
(* flowmeter.FlowMeter (src/flowmeter.py): the capture callback, the       *)
(* cleanup thread that exports expired flows, and stop(), which exports    *)
(* the flows left in the table and closes the CSV file.  The state is in   *)
(* flows, flowOrder, running, packet_count, now, in mpc (the main thread), *)
(* cleaner (the cleanup thread) and probe (flow_count, completed_flows,    *)
(* the CSV file).  A flow record is cut down to its creation number, its   *)
(* packet count and last_time; a CSV row to the flow's creation number.    *)
(* The callback is one step here; its races with the cleanup pass are      *)
(* those of DDoSDetectionSystem above.                                     *)
(***************************************************************************)
fm_cleanup_sleep == 10

FmPkts == {PktAB, PktCB}

FmCleaner(pc, sleptAt) ==
    [pc |-> pc, sleptAt |-> sleptAt, at |-> NoTime, size |-> 0, pos |-> 0,
     expired |-> << >>, todo |-> << >>]

\* lines 244-259 (__init__): no flow, no completed flow, no CSV file
FmInit ==
    [flow_count |-> 0,
     completed_flows |-> << >>,
     csv |-> "none",           \* csv_file: none, open or closed
     iter |-> FmCleaner("none", NoTime),   \* the iterator of stop()'s for loop
     \* history: an export was attempted on the closed file; clock advances
     late |-> FALSE,
     ticks |-> 0]

InitFM ==
    /\ env = Scenario(FmPkts, MaxFmPkts, fm_cleanup_sleep * 1000, 0, MaxFmTicks, FALSE)
    /\ rt = RtInit
    /\ now = 0
    /\ running = FALSE
    /\ mpc = "sniff"
    /\ flows = EmptyMap
    /\ flowOrder = << >>
    /\ packet_count = 0
    /\ detection_count = 0
    /\ malicious_ips = {}
    /\ blocked_ips = {}
    /\ logs = << >>
    /\ saved = NoFile
    /\ intake = IntakeIdle
    /\ cleaner = FmCleaner("loop", NoTime)
    /\ obs = ObsInit
    /\ probe = FmInit

\* _export_flow (lines 337-349) on the file state fm: writerow on a closed
\* file raises ValueError before completed_flows.append
fm_export_flow(fm, id) ==
    IF fm.csv = "closed"
    THEN [fm EXCEPT !.late = TRUE]
    ELSE [fm EXCEPT !.csv = "open", !.completed_flows = Append(@, id)]

\* start(), lines 368-372: running is set and the cleanup thread started
FmStart ==
    /\ mpc = "sniff"
    /\ ~running
    /\ cleaner.pc = "loop"
    /\ packet_count = 0
    /\ probe.iter.pc = "none"
    /\ running' = TRUE
    /\ probe' = [probe EXCEPT !.iter = FmCleaner("idle", NoTime)]
    /\ UNCHANGED << rt, env, now, mpc, tableVars, packet_count, detectVars, saved, intake,
                    cleaner, obs >>

\* _process_packet, lines 295-320
FmProcessPacket(p) ==
    /\ mpc = "sniff"
    /\ running
    /\ packet_count < env.pkts
    /\ packet_count' = packet_count + 1
    /\ LET key == get_flow_key(p)
           isNew == key \notin DOMAIN flows
           f == IF isNew
                THEN [id |-> probe.flow_count + 1, packets |-> 0, last_time |-> NoTime]
                ELSE flows[key]
       IN IF key = NoKey
          THEN UNCHANGED << tableVars, probe >>
          ELSE /\ flows' = MapPut(flows, key,
                                  [f EXCEPT !.packets = @ + 1, !.last_time = now])
               /\ flowOrder' = IF isNew THEN Append(flowOrder, key) ELSE flowOrder
               /\ probe' = IF isNew THEN [probe EXCEPT !.flow_count = @ + 1] ELSE probe
    /\ UNCHANGED << rt, env, now, running, mpc, detectVars, saved, intake, cleaner, obs >>

\* sniff returns or raises (duration, count, Ctrl+C); stop() begins:
\* line 398, and the iterator of line 405
FmStopBegin ==
    /\ mpc = "sniff"
    /\ running
    /\ running' = FALSE
    /\ mpc' = "stop_export"
    /\ probe' = [probe EXCEPT !.iter = [FmCleaner("iter", NoTime) EXCEPT
                                           !.size = Len(flowOrder)]]
    /\ UNCHANGED << rt, env, now, tableVars, packet_count, detectVars, saved, intake,
                    cleaner, obs >>

\* one turn of the for loop of lines 405-406; the RuntimeError of a dict
\* whose size has changed leaves stop() through start()'s finally
FmStopExport ==
    /\ mpc = "stop_export"
    /\ IF Len(flowOrder) # probe.iter.size
       THEN /\ mpc' = "raised"
            /\ probe' = probe
       ELSE IF probe.iter.pos >= Len(flowOrder)
       THEN /\ mpc' = "stop_close"
            /\ probe' = probe
       ELSE /\ mpc' = mpc
            /\ probe' = [fm_export_flow(probe, flows[flowOrder[probe.iter.pos + 1]].id)
                            EXCEPT !.iter.pos = @ + 1]
    /\ UNCHANGED << rt, env, now, running, tableVars, packet_count, detectVars, saved, intake,
                    cleaner, obs >>

\* lines 408-409
FmStopClose ==
    /\ mpc = "stop_close"
    /\ mpc' = "stopped"
    /\ probe' = [probe EXCEPT !.csv = IF @ = "none" THEN "none" ELSE "closed"]
    /\ UNCHANGED << rt, env, now, running, tableVars, packet_count, detectVars, saved, intake,
                    cleaner, obs >>

\* start() has returned or raised: main() returns, the process ends and
\* the daemon thread with it
FmExit ==
    /\ mpc \in {"stopped", "raised"}
    /\ mpc' = "exited"
    /\ cleaner' = FmCleaner("killed", NoTime)
    /\ UNCHANGED << rt, probe, env, now, running, tableVars, packet_count, detectVars, saved,
                    intake, obs >>

\* _cleanup_thread, line 353: `while self.running`, then time.sleep(10)
FmCleanupLoop ==
    /\ mpc # "exited"
    /\ probe.iter.pc # "none"
    /\ cleaner.pc = "loop"
    /\ cleaner' = IF running THEN FmCleaner("sleep", now) ELSE FmCleaner("exit", NoTime)
    /\ UNCHANGED << rt, probe, env, now, running, mpc, tableVars, packet_count, detectVars,
                    saved, intake, obs >>

\* the sleep is over: lines 324-327, now, expired = [], the iterator
FmCleanupStart ==
    /\ mpc # "exited"
    /\ cleaner.pc = "sleep"
    /\ now - cleaner.sleptAt >= fm_cleanup_sleep * 1000
    /\ cleaner' = [cleaner EXCEPT !.pc = "scan", !.at = now, !.size = Len(flowOrder)]
    /\ UNCHANGED << rt, probe, env, now, running, mpc, tableVars, packet_count, detectVars,
                    saved, intake, obs >>

\* one turn of the for loop of lines 327-331
FmCleanupScan ==
    /\ mpc # "exited"
    /\ cleaner.pc = "scan"
    /\ cleaner' =
         IF Len(flowOrder) # cleaner.size
         THEN FmCleaner("dead", NoTime)
         ELSE IF cleaner.pos >= Len(flowOrder)
         THEN [cleaner EXCEPT !.pc = "pop", !.todo = cleaner.expired]
         ELSE LET key == flowOrder[cleaner.pos + 1]
              IN [cleaner EXCEPT
                    !.pos = @ + 1,
                    !.expired = IF IsExpired(flows[key].last_time, cleaner.at)
                                THEN Append(@, key) ELSE @]
    /\ UNCHANGED << rt, probe, env, now, running, mpc, tableVars, packet_count, detectVars,
                    saved, intake, obs >>

\* one turn of the for loop of lines 333-335: pop and _export_flow; the
\* ValueError of a closed file ends the thread
FmCleanupPop ==
    /\ mpc # "exited"
    /\ cleaner.pc = "pop"
    /\ cleaner.todo # << >>
    /\ LET key == Head(cleaner.todo)
       IN /\ flows' = MapDel(flows, key)
          /\ flowOrder' = SeqDel(flowOrder, key)
          /\ probe' = fm_export_flow(probe, flows[key].id)
          /\ cleaner' = IF probe.csv = "closed"
                        THEN FmCleaner("dead", NoTime)
                        ELSE [cleaner EXCEPT !.todo = Tail(@)]
    /\ UNCHANGED << rt, env, now, running, mpc, packet_count, detectVars, saved, intake, obs >>

\* the pass is over: back to line 353
FmCleanupDone ==
    /\ mpc # "exited"
    /\ cleaner.pc = "pop"
    /\ cleaner.todo = << >>
    /\ cleaner' = FmCleaner("loop", NoTime)
    /\ UNCHANGED << rt, probe, env, now, running, mpc, tableVars, packet_count, detectVars,
                    saved, intake, obs >>

\* the clock: the length of a sleep, or more than the flow timeout
FmTick(d) ==
    /\ mpc # "exited"
    /\ probe.ticks < env.longTicks
    /\ now' = now + d
    /\ probe' = [probe EXCEPT !.ticks = @ + 1]
    /\ UNCHANGED << rt, env, running, mpc, tableVars, packet_count, detectVars, saved, intake,
                    cleaner, obs >>

NextFM ==
    \/ FmStart
    \/ \E p \in env.menu : FmProcessPacket(p)
    \/ FmStopBegin
    \/ FmStopExport
    \/ FmStopClose
    \/ FmExit
    \/ FmCleanupLoop
    \/ FmCleanupStart
    \/ FmCleanupScan
    \/ FmCleanupPop
    \/ FmCleanupDone
    \/ \E d \in {fm_cleanup_sleep * 1000, LongTick + ShortTick} : FmTick(d)

SpecFM == InitFM /\ [][NextFM]_vars

(***************************************************************************)
(* A JSONLogger (src/ddos_detector.py) on its own: log_detection and save  *)
(* called in any order.                                                    *)
(***************************************************************************)
\* the packets whose one-packet flows are logged
LoggerPkts == {PktAB, PktCB}
LoggerActions == {"blocked", "detected"}

LoggerLogDetection(p, action) ==
    LET key == get_flow_key(p)
        f == add_packet(Flow(key[1], key[2], key[3], key[4], key[5]), p, now, is_forward(p, key))
        result == heuristic_detection(extract_features(f))
    IN /\ Len(logs) < MaxLogged
       /\ logs' = Append(logs, log_entry(extract_features(f), now, result.label,
                                         result.confidence, action, result.reasons))
       /\ UNCHANGED << rt, probe, blocked_ips, env, now, running, mpc, tableVars, packet_count,
                       detection_count, malicious_ips, saved, intake, cleaner, obs >>

LoggerSave ==
    /\ probe.flushes < MaxFlushes
    /\ saved' = save(logs)
    /\ probe' = [probe EXCEPT !.flushes = @ + 1]
    /\ UNCHANGED << rt, blocked_ips, env, now, running, mpc, tableVars, packet_count,
                    detectVars, intake, cleaner, obs >>

InitLogger == InitWith(OpsScenarios)

NextLogger ==
    \/ \E p \in LoggerPkts, action \in LoggerActions : LoggerLogDetection(p, action)
    \/ LoggerSave

SpecLogger == InitLogger /\ [][NextLogger]_vars

(***************************************************************************)
(* MLClassifier.heuristic_detection applied to a snapshot.  The snapshot   *)
(* is the dictionary of the keys the function reads; the two rates are     *)
(* given as totals over rate_ms milliseconds, as extract_features has them.*)
(***************************************************************************)
\* packets in 10 milliseconds: 0, 300, 600, 1000, 1100 and 1500 a second
HeurPackets == {0, 3, 6, 10, 11, 15}
HeurSizes == {60, 100, 500, 7000}
HeurSyn == {0, 50, 51, 60, 80}
HeurAck == {0, 2, 5, 40}
HeurFwd == {0, 100, 101, 105, 126}
HeurBwd == {0, 5}

HeurSnapshots ==
    { [total_packets |-> n, total_bytes |-> n * size, rate_ms |-> 10,
       syn_flag_count |-> syn, ack_flag_count |-> ack,
       total_fwd_packets |-> fwd, total_bwd_packets |-> bwd] :
         n \in HeurPackets, size \in HeurSizes, syn \in HeurSyn, ack \in HeurAck,
         fwd \in HeurFwd, bwd \in HeurBwd }

InitHeur ==
    /\ InitRun(OpsScenarios)
    /\ probe \in {[ProbeInit EXCEPT !.x = x] : x \in HeurSnapshots}

HeurApply ==
    /\ probe.x # NoObject
    /\ probe.result = NoObject
    /\ probe' = [probe EXCEPT !.result = heuristic_detection(probe.x)]
    /\ UNCHANGED << rt, blocked_ips, runVars >>

NextHeur == HeurApply

SpecHeur == InitHeur /\ [][NextHeur]_vars

(***************************************************************************)
(* A run of RealTimeDetectionSystem (src/ddos_detection.py): start(), the  *)
(* capture callback packet_handler, signal_handler and stop().             *)
(***************************************************************************)
RtScenarios ==
    { Scenario({PktAB, PktBA}, MaxRtPkts, ShortTick, MaxShortTicks, 0, ml) : ml \in BOOLEAN }

\* lines 310-319: the entry appended to self.logs
rt_log_entry(key, x, at) ==
    [timestamp |-> at, src_ip |-> key[1], dst_ip |-> key[2],
     src_port |-> key[3], dst_port |-> key[4], protocol |-> key[5],
     features |-> x, action |-> "blocked"]

\* start(): xdp_filter.load(), then sniff
RtStart(outcome) ==
    /\ rt.pc = "start"
    /\ rt' = [rt EXCEPT !.pc = "sniff", !.enabled = xdp_load(@, outcome)]
    /\ UNCHANGED << probe, blocked_ips, runVars >>

RtTick ==
    /\ rt.pc = "sniff"
    /\ now \div env.step < env.shortTicks
    /\ now' = now + env.step
    /\ UNCHANGED << rt, probe, env, running, mpc, tableVars, packet_count, detectVars,
                    saved, intake, cleaner, obs >>

packet_handler(p, model, xdpOutcome, iptOutcome) ==
    /\ rt.pc = "sniff"
    /\ rt.packet_count < env.pkts
    /\ rt' =
         IF ~rt.running
         THEN [rt EXCEPT !.pc = "stopping"]
         ELSE IF rt_flow_key(p) = NoKey
         THEN [rt EXCEPT !.packet_count = @ + 1]
         ELSE LET flow_key == rt_flow_key(p)
                  stats == update_flow(rt.flows, p, now)
                  flow_data == stats[flow_key]
                  features == rt_extract_features(flow_data)
                  is_malicious ==
                      /\ flow_data.packet_count % RtCheckEvery = 0
                      /\ rt_predict(env.ml, features, model)
                  src_ip == flow_key[1]
                  r == xdp_block_ip(rt.blocked_ips, rt.enabled, src_ip,
                                    xdpOutcome, iptOutcome)
              IN IF is_malicious /\ src_ip \notin rt.malicious_ips
                 THEN [rt EXCEPT
                         !.packet_count = @ + 1,
                         !.flows = stats,
                         !.malicious_ips = @ \cup {src_ip},
                         !.detection_count = @ + 1,
                         !.logs = Append(@, rt_log_entry(flow_key, features, now)),
                         !.blocked_ips = r.blocked,
                         !.last = [src_ip |-> src_ip, action |-> "blocked",
                                   inSetAtAppend |-> src_ip \in rt.blocked_ips,
                                   ret |-> r.ret, cmds |-> r.cmds]]
                 ELSE [rt EXCEPT !.packet_count = @ + 1, !.flows = stats]
    /\ UNCHANGED << probe, blocked_ips, runVars >>

RtSignal ==
    /\ rt.pc = "sniff"
    /\ rt.running
    /\ rt' = [rt EXCEPT !.running = FALSE]
    /\ UNCHANGED << probe, blocked_ips, runVars >>

\* sniff has returned (stop_filter, an interrupt, the capture's end): stop()
RtStop ==
    /\ rt.pc \in {"sniff", "stopping"}
    /\ rt' = [rt EXCEPT !.pc = "stopped",
                        !.running = FALSE,
                        !.saved = IF rt.logs # << >> THEN save(rt.logs) ELSE @]
    /\ probe' = [probe EXCEPT !.flushes = IF rt.logs # << >> THEN @ + 1 ELSE @]
    /\ UNCHANGED << blocked_ips, runVars >>

InitRT == InitWith(RtScenarios)

NextRT ==
    \/ \E outcome \in CmdOutcomes : RtStart(outcome)
    \/ RtTick
    \/ \E p \in env.menu, model \in ModelOutcomes,
          xdpOutcome \in CmdOutcomes, iptOutcome \in CmdOutcomes :
            packet_handler(p, model, xdpOutcome, iptOutcome)
    \/ RtSignal
    \/ RtStop

SpecRT == InitRT /\ [][NextRT]_vars

(***************************************************************************)
(* RealTimeDetectionSystem with its cleanup thread (periodic_cleanup,      *)
(* FlowMeter.cleanup_old_flows of src/ddos_detection.py).  The callback    *)
(* is taken in three steps: update_flow (line 283), the read of the entry  *)
(* (line 288), and the check with what follows it (lines 291-325).  The    *)
(* dict is rt.flows with its keys in insertion order in flowOrder; intake  *)
(* holds the callback's flow_key and flow_data, cleaner the thread's       *)
(* position and locals.                                                    *)
(***************************************************************************)
RaceScenarios == { Scenario({PktAB}, MaxRacePkts, ShortTick, 0, MaxRaceTicks, FALSE) }

InitRace ==
    /\ InitWith(RaceScenarios)

\* the test of lines 105-108
RtIsExpired(last_seen, at) == last_seen # NoTime /\ at - last_seen > RtTimeout * 1000

\* the clock moves on by more than the flow timeout
RaceTick ==
    /\ rt.pc = "sniff"
    /\ now \div (RtTimeout * 1000) < env.longTicks
    /\ now' = now + RtTimeout * 1000 + env.step
    /\ UNCHANGED << rt, probe, env, running, mpc, tableVars, packet_count, detectVars,
                    saved, intake, cleaner, obs >>

\* lines 277-286: the callback up to the return of update_flow
RaceUpdate(p) ==
    /\ rt.pc = "sniff"
    /\ intake.pc = "idle"
    /\ rt.packet_count < env.pkts
    /\ IF ~rt.running
       THEN /\ rt' = [rt EXCEPT !.pc = "stopping"]
            /\ UNCHANGED << intake, flowOrder >>
       ELSE /\ rt' = [rt EXCEPT !.packet_count = @ + 1,
                                !.flows = IF rt_flow_key(p) = NoKey THEN @
                                          ELSE update_flow(@, p, now)]
            /\ flowOrder' = IF rt_flow_key(p) = NoKey \/ rt_flow_key(p) \in DOMAIN rt.flows
                            THEN flowOrder ELSE Append(flowOrder, rt_flow_key(p))
            /\ intake' = IF rt_flow_key(p) = NoKey THEN intake
                         ELSE [IntakeIdle EXCEPT !.pc = "read", !.pkt = p,
                                                 !.key = rt_flow_key(p), !.ts = now]
    /\ UNCHANGED << probe, env, now, running, mpc, flows, packet_count, detectVars, saved,
                    cleaner, obs >>

\* line 288: flow_data = self.flowmeter.flows[flow_key]; the defaultdict
\* makes an entry for a key it does not hold
RaceRead ==
    /\ rt.pc = "sniff"
    /\ intake.pc = "read"
    /\ LET held == intake.key \in DOMAIN rt.flows
           flow_data == IF held THEN rt.flows[intake.key] ELSE flow_stats_default
       IN /\ rt' = [rt EXCEPT !.flows = IF held THEN @
                                        ELSE [x \in DOMAIN @ \cup {intake.key} |->
                                                IF x = intake.key THEN flow_data ELSE @[x]]]
          /\ flowOrder' = IF held THEN flowOrder ELSE Append(flowOrder, intake.key)
          /\ intake' = [intake EXCEPT !.pc = "check", !.held = flow_data]
    /\ UNCHANGED << probe, env, now, running, mpc, flows, packet_count, detectVars, saved,
                    cleaner, obs >>

\* lines 291-325.  extract_features subtracts start_time from last_seen: with
\* None for both it raises TypeError, which ends sniff
RaceCheck(model, xdpOutcome, iptOutcome) ==
    /\ rt.pc = "sniff"
    /\ intake.pc = "check"
    /\ LET flow_key == intake.key
           flow_data == intake.held
           features == rt_extract_features(flow_data)
           src_ip == flow_key[1]
           r == xdp_block_ip(rt.blocked_ips, rt.enabled, src_ip, xdpOutcome, iptOutcome)
       IN IF flow_data.packet_count % RtCheckEvery # 0
          THEN /\ rt' = rt
               /\ intake' = IntakeIdle
          ELSE IF flow_data.start_time = NoTime \/ flow_data.last_seen = NoTime
          THEN /\ rt' = [rt EXCEPT !.pc = "stopping"]
               /\ intake' = [intake EXCEPT !.pc = "raised"]
          ELSE /\ intake' = IntakeIdle
               /\ rt' = IF rt_predict(env.ml, features, model) /\ src_ip \notin rt.malicious_ips
                        THEN [rt EXCEPT
                                !.malicious_ips = @ \cup {src_ip},
                                !.detection_count = @ + 1,
                                !.logs = Append(@, rt_log_entry(flow_key, features, now)),
                                !.blocked_ips = r.blocked,
                                !.last = [src_ip |-> src_ip, action |-> "blocked",
                                          inSetAtAppend |-> src_ip \in rt.blocked_ips,
                                          ret |-> r.ret, cmds |-> r.cmds]]
                        ELSE rt
    /\ UNCHANGED << probe, env, now, running, mpc, tableVars, packet_count, detectVars, saved,
                    cleaner, obs >>

\* sniff has returned or raised between two callbacks: stop()
RaceStop ==
    /\ intake.pc \in {"idle", "raised"}
    /\ RtStop

\* periodic_cleanup, line 365: `while running`, then time.sleep(30)
RaceCleanupLoop ==
    /\ rt.pc \in {"sniff", "stopping"}
    /\ cleaner.pc = "loop"
    /\ cleaner' = IF rt.running THEN CleanerIdle("sleep", now) ELSE CleanerIdle("exit", NoTime)
    /\ UNCHANGED << rt, probe, env, now, running, mpc, tableVars, packet_count, detectVars,
                    saved, intake, obs >>

\* the sleep is over: lines 103-105, now, to_remove = [], the iterator
RaceCleanupStart ==
    /\ rt.pc \in {"sniff", "stopping"}
    /\ cleaner.pc = "sleep"
    /\ now - cleaner.sleptAt >= RtCleanupSleep * 1000
    /\ cleaner' = [cleaner EXCEPT !.pc = "scan", !.at = now, !.size = Len(flowOrder),
                                  !.pos = 0, !.expired = << >>, !.todo = << >>]
    /\ UNCHANGED << rt, probe, env, now, running, mpc, tableVars, packet_count, detectVars,
                    saved, intake, obs >>

\* one turn of the for loop of lines 105-109; RuntimeError when the dict's
\* size has changed
RaceCleanupScan ==
    /\ rt.pc \in {"sniff", "stopping"}
    /\ cleaner.pc = "scan"
    /\ cleaner' =
         IF Len(flowOrder) # cleaner.size
         THEN CleanerIdle("dead", NoTime)
         ELSE IF cleaner.pos >= Len(flowOrder)
         THEN [cleaner EXCEPT !.pc = "delete", !.todo = cleaner.expired]
         ELSE LET key == flowOrder[cleaner.pos + 1]
              IN [cleaner EXCEPT
                    !.pos = @ + 1,
                    !.expired = IF RtIsExpired(rt.flows[key].last_seen, cleaner.at)
                                THEN Append(@, key) ELSE @]
    /\ UNCHANGED << rt, probe, env, now, running, mpc, tableVars, packet_count, detectVars,
                    saved, intake, obs >>

\* one turn of the del loop of lines 111-112
RaceCleanupDelete ==
    /\ rt.pc \in {"sniff", "stopping"}
    /\ cleaner.pc = "delete"
    /\ cleaner.todo # << >>
    /\ rt' = [rt EXCEPT !.flows = [x \in DOMAIN @ \ {Head(cleaner.todo)} |-> @[x]]]
    /\ flowOrder' = SeqDel(flowOrder, Head(cleaner.todo))
    /\ cleaner' = [cleaner EXCEPT !.todo = Tail(@)]
    /\ UNCHANGED << probe, env, now, running, mpc, flows, packet_count, detectVars, saved,
                    intake, obs >>

\* the pass is over: back to line 365
RaceCleanupDone ==
    /\ rt.pc \in {"sniff", "stopping"}
    /\ cleaner.pc = "delete"
    /\ cleaner.todo = << >>
    /\ cleaner' = CleanerIdle("loop", NoTime)
    /\ UNCHANGED << rt, probe, env, now, running, mpc, tableVars, packet_count, detectVars,
                    saved, intake, obs >>

NextRace ==
    \/ \E outcome \in CmdOutcomes : RtStart(outcome)
    \/ RaceTick
    \/ \E p \in env.menu : RaceUpdate(p)
    \/ RaceRead
    \/ \E model \in ModelOutcomes, xdpOutcome \in CmdOutcomes, iptOutcome \in CmdOutcomes :
          RaceCheck(model, xdpOutcome, iptOutcome)
    \/ RtSignal
    \/ RaceStop
    \/ RaceCleanupLoop
    \/ RaceCleanupStart
    \/ RaceCleanupScan
    \/ RaceCleanupDelete
    \/ RaceCleanupDone

SpecRace == InitRace /\ [][NextRace]_vars

(***************************************************************************)
(* Properties of the pipeline.                                             *)
(***************************************************************************)
Sampled == obs.sample # NoObject

\* C2: no enforcement command is ever run for an address that is already in the
\* blocked set, whoever calls block_ip: the pipeline at a malicious verdict for a
\* flow of that address, or a caller of the filter.
C2_NoDuplicateEnforcement == ~obs.dup

\* a malicious verdict for a flow whose address was already blocked, and block_ip
\* called for it
C2_Witness ==
    Sampled /\ obs.sample.malicious /\ obs.sample.wasBlocked /\ obs.sample.attempted

\* C4 (as claimed): an address whose block attempt failed is not in the blocked set,
\* and the next sampling point that classifies a flow of that address as malicious
\* calls block_ip for it again.
C4_RetryAfterFailure ==
    /\ (obs.call # NoObject /\ ~obs.call.ret => obs.call.ip \notin blocked_ips)
    /\ (Sampled /\ obs.sample.malicious /\ obs.sample.hadFailed /\ ~obs.sample.wasBlocked
          => obs.sample.attempted)

\* C6: the detection log holds at most one record per source address.
C6_OneRecordPerAddress ==
    \A i, j \in 1..Len(logs) : logs[i].src_ip = logs[j].src_ip => i = j

\* a malicious verdict for a second flow of an address that already has its record
C6_Witness ==
    /\ Sampled /\ obs.sample.malicious /\ obs.sample.flagged
    /\ Len(logs) = 1
    /\ logs[1].src_ip = obs.sample.src
    /\ logs[1].src_port # obs.sample.key[3]

\* C8 (as claimed): the cleanup thread is never scanning or deleting entries of the
\* flow map while the callback is between its lookup or insert of an entry and the
\* end of its update of that entry.
C8_MutualExclusion ==
    ~(cleaner.pc \in {"scan", "delete"} /\ intake.pc \in {"lookup", "add"})

\* the keys of table tbl idle for more than the timeout at time at
IdleTooLong(tbl, at) ==
    {k \in DOMAIN tbl : tbl[k].last_time # NoTime /\ at - tbl[k].last_time > timeout * 1000}

\* a pass of cleanup_old_flows has returned, and no callback step ran during it
QuietPass == cleaner.pc = "returned" /\ cleaner.quiet

\* C9: when a pass of cleanup_old_flows returns, every flow that was idle for more
\* than the timeout when the pass read the clock is absent from the table; and a step
\* classifies only the flow of the packet whose callback takes the step, so an evicted
\* flow is not classified again before a packet of its key is handled.
C9_EvictedAndSilent ==
    /\ [](QuietPass => \A k \in IdleTooLong(cleaner.pre, cleaner.at) : k \notin DOMAIN flows)
    /\ [][(obs.sample' # obs.sample /\ obs.sample' # NoObject)
            => (intake.pc = "add" /\ obs.sample'.key = intake.key)]_vars

\* a pass has returned that found a flow idle for more than the timeout
C9_Witness == QuietPass /\ IdleTooLong(cleaner.pre, cleaner.at) # {}

\* C10: a pass of cleanup_old_flows removes exactly the records with
\* now - last_time > timeout, leaves the other records as they were, and returns
\* the number of records it removed.
C10_EvictExactly ==
    QuietPass =>
        LET gone == IdleTooLong(cleaner.pre, cleaner.at)
        IN /\ flows = [k \in DOMAIN cleaner.pre \ gone |-> cleaner.pre[k]]
           /\ cleaner.ret = Cardinality(gone)

\* a pass has returned that removed one record and kept one idle for exactly the timeout
C10_Witness ==
    /\ QuietPass
    /\ cleaner.ret = 1
    /\ \E k \in DOMAIN flows : cleaner.at - flows[k].last_time = timeout * 1000

(***************************************************************************)
(* Properties of the filters, the flow key, the end-to-end run and         *)
(* RealTimeDetectionSystem.                                                *)
(***************************************************************************)
\* the last two calls of block_ip were calls of the same filter for the same address
InARow ==
    /\ probe.prev # NoObject
    /\ probe.last # NoObject
    /\ probe.prev.filter = probe.last.filter
    /\ probe.prev.ip = probe.last.ip

\* C1 (as claimed): two calls of block_ip in a row for the same address run at most
\* one enforcement command in total, and both return success.
C1_TwiceAtMostOnceBothSucceed ==
    InARow => /\ probe.prev.cmds + probe.last.cmds <= 1
              /\ probe.prev.ret
              /\ probe.last.ret

\* C1 (amended): when a call of block_ip has returned success, the next call in a row
\* for the same address runs no enforcement command and returns success.
C1_SecondCallIsNoOp ==
    InARow /\ probe.prev.ret => probe.last.cmds = 0 /\ probe.last.ret

\* a call that ran a command and succeeded, followed by a call for the same address
C1_Witness ==
    InARow /\ probe.prev.ret /\ probe.prev.cmds > 0 /\ probe.last.ret

\* the run has handled all its packets and no enforcement command has failed
E2EDone == packet_count = E2EPkts /\ intake.pc = "idle" /\ obs.failed = {} /\ now < 1000

\* C3 (as claimed): after the end-to-end run with a succeeding backend the log holds
\* exactly one record, its action is blocked, its confidence is positive, and the
\* address the packets were sent from is in the blocked set.
C3_EndToEnd ==
    E2EDone => /\ Len(logs) = 1
               /\ logs[1].action = "blocked"
               /\ logs[1].confidence > 0
               /\ \A p \in env.menu : p.src \in blocked_ips

\* DDoSDetectionSystem: the record a sampling point appends says blocked exactly when
\* block_ip returned success, and then the address is in the blocked set
DetectorActionMatches ==
    Sampled /\ obs.sample.logged = 1 =>
        /\ (logs[Len(logs)].action = "blocked") = obs.sample.ret
        /\ (logs[Len(logs)].action = "detected") = ~obs.sample.ret
        /\ (obs.sample.ret => obs.sample.src \in blocked_ips)

\* RealTimeDetectionSystem: the same of the record packet_handler appends
RtActionMatches ==
    rt.last # NoObject =>
        /\ (rt.last.action = "blocked") = rt.last.ret
        /\ (rt.last.action = "blocked" => rt.last.inSetAtAppend)

\* C5 (as claimed): every detection record is appended with action blocked exactly
\* when the block attempt for its address returned success, the address then being in
\* the blocked set at the append, and with action detected otherwise.
C5_ActionMatchesOutcome == DetectorActionMatches /\ RtActionMatches

\* C7: get_flow_key gives a packet and the packet with source and destination
\* endpoints swapped the same key, and a key at all when the packet has an IP layer.
C7_KeySymmetric ==
    probe.done => /\ probe.key = probe.swappedKey
                  /\ (probe.p.l3 = "ip" => probe.key # NoKey)

\* a packet whose destination endpoint is the key's first endpoint
C7_Witness ==
    probe.done /\ probe.key # NoKey /\ probe.key[1] # probe.p.src

(***************************************************************************)
(* Properties of eviction, sampling and non-IP input.                      *)
(***************************************************************************)
\* a step of the cleanup thread: its position or its locals change (a step of the
\* callback changes nothing of the thread but the history field quiet)
CleanerStep == [cleaner' EXCEPT !.quiet = cleaner.quiet] # cleaner

\* C11: no step of the cleanup thread (its loop, a pass of cleanup_old_flows) classifies
\* a flow or calls the filter, and each leaves the detection log, the log file, the
\* detection counter, the flagged set and the blocked set unchanged.
C11_EvictionFrame ==
    [][CleanerStep => /\ UNCHANGED << detection_count, malicious_ips, blocked_ips, logs, saved >>
                      /\ obs' = obs]_vars

\* a pass has removed a flow while its address is flagged, blocked and logged
C11_Witness ==
    /\ cleaner.pc = "returned"
    /\ cleaner.ret > 0
    /\ logs # << >>
    /\ blocked_ips # {}
    /\ malicious_ips # {}

\* C12: the callback classifies the flow of its packet exactly when the flow's packet
\* count, forward plus backward, after the packet is at least 5 and a multiple of 10:
\* every classification recorded is at such a count, and the step that ends a callback
\* classifies if and only if the count it leaves is such a count.
C12_SamplingRule ==
    /\ [](Sampled => obs.sample.total >= 5 /\ obs.sample.total % 10 = 0)
    /\ [][intake.pc = "add" /\ intake'.pc = "idle" =>
            LET total == intake.held.fwd_packets + intake.held.bwd_packets + 1
            IN (obs'.sample # NoObject) = (total >= 5 /\ total % 10 = 0)]_vars

\* the second sampling point of a flow
C12_Witness == Sampled /\ obs.sample.total = 2 * 10

\* C13: the callback of a packet without an IP layer returns at once: it creates no
\* flow, changes no flow, classifies nothing, calls no filter, and leaves the flagged
\* set, the blocked set and the detection log unchanged.
C13_NonIpIgnored ==
    [][packet_count' # packet_count /\ obs'.nonip =>
          /\ UNCHANGED << tableVars, detectVars >>
          /\ intake'.pc = "idle"
          /\ obs'.sample = NoObject
          /\ obs'.call = obs.call]_vars

\* a packet without an IP layer has been handled while the table holds a flow
C13_Witness == obs.nonip /\ intake.pc = "idle" /\ flows # EmptyMap

\* C14 (as claimed): a call of block_ip for an address of 127.* or for
\* 0.0.0.0 returns failure, invokes no enforcement command and leaves the
\* blocked set unchanged, in IPTablesFilter and in XDPFilter alike.
C14_RefusedEverywhere ==
    probe.last # NoObject /\ IsRefused(probe.last.ip) =>
        /\ ~probe.last.ret
        /\ probe.last.cmds = 0
        /\ probe.last.unchanged

\* the half of C14 about IPTablesFilter.block_ip
C14_RefusedByIptablesFilter ==
    probe.last # NoObject /\ probe.last.filter = "iptables" /\ IsRefused(probe.last.ip) =>
        /\ ~probe.last.ret
        /\ probe.last.cmds = 0
        /\ probe.last.unchanged

C14_IptablesWitness ==
    /\ probe.last # NoObject /\ probe.last.filter = "iptables"
    /\ probe.last.ip = Unspecified
    /\ blocked_ips # {}

\* Occurrences of a backend in the commands a call ran
TimesTried(call, backend) ==
    Cardinality({i \in 1..Len(call.tried) : call.tried[i] = backend})

\* C15: XDPFilter.block_ip for an address not yet blocked runs xdp-filter
\* first when the filter is enabled; if that succeeds the address is added and
\* iptables is not run; if xdp-filter is not enabled, times out or fails,
\* iptables is run exactly once, and block_ip returns what that run gave.
C15_XdpThenFallback ==
    probe.last # NoObject /\ probe.last.filter = "xdp" /\ ~probe.last.inSet =>
        LET c == probe.last
            xdpOk == c.enabled /\ c.outcomes[1] = "ok"
        IN /\ TimesTried(c, "xdp") = (IF c.enabled THEN 1 ELSE 0)
           /\ c.enabled => c.tried[1] = "xdp"
           /\ xdpOk => /\ c.tried = << "xdp" >>
                       /\ c.ret
                       /\ c.inSetAfter
           /\ ~xdpOk => /\ TimesTried(c, "iptables") = 1
                        /\ c.tried[Len(c.tried)] = "iptables"
                        /\ c.ret = (c.outcomes[Len(c.tried)] = "ok")
                        /\ c.inSetAfter = c.ret

C15_Witness ==
    /\ probe.last # NoObject /\ probe.last.filter = "xdp" /\ ~probe.last.inSet
    /\ probe.last.enabled
    /\ probe.last.tried = << "xdp", "iptables" >>
    /\ probe.last.outcomes = << "timeout", "ok" >>
    /\ probe.last.ret /\ probe.last.inSetAfter

\* C16 (as claimed): whatever the outcome of the backend command, unblock_ip
\* returns success and the address is not in the blocked set afterwards.
C16_UnblockAlwaysRemoves ==
    probe.unblocked # NoObject =>
        /\ probe.unblocked.ret
        /\ ~probe.unblocked.inSetAfter

\* the part of C16 that the code keeps: when the command ends, with any exit
\* code ("rule already absent" is a non-zero exit), unblock_ip returns success
\* and the address is not in the set
C16_UnblockWhenCommandEnds ==
    probe.unblocked # NoObject /\ probe.unblocked.outcome # "timeout" =>
        /\ probe.unblocked.ret
        /\ ~probe.unblocked.inSetAfter

C16_AbsentRuleWitness ==
    /\ probe.unblocked # NoObject
    /\ probe.unblocked.outcome = "nonzero"
    /\ probe.unblocked.inSet

\* A step in which the holder of a returned list changes it
ListChanged ==
    /\ probe.listed # NoObject
    /\ probe'.listed # NoObject
    /\ ~probe.listed.changed
    /\ probe'.listed.changed

\* C17: what list_blocked returned is a copy: it holds what the caller saw
\* and put into it whatever block_ip and unblock_ip do to the set afterwards,
\* and a change of it by the caller leaves the blocked set as it was.
C17_ListIsSnapshot ==
    /\ [](probe.listed # NoObject => View(probe.listed) = probe.listed.expect)
    /\ [][ListChanged => blocked_ips' = blocked_ips]_vars

C17_Witness ==
    /\ probe.listed # NoObject
    /\ probe.listed.changed
    /\ Len(probe.listed.items) = 2
    /\ blocked_ips \ probe.listed.expect # {}
    /\ probe.listed.expect \ blocked_ips # {}
    /\ probe.unblocked # NoObject /\ probe.unblocked.ret /\ probe.unblocked.inSet

\* sequence a is an initial part of sequence b
IsPrefix(a, b) == Len(a) <= Len(b) /\ SubSeq(b, 1, Len(a)) = a

\* C18: in every step the in-memory detection log after the step has the log
\* before the step as a prefix: records are appended, none is removed,
\* reordered or modified, by the flush of stop() as by any other step.
C18_LogOnlyGrows ==
    [][IsPrefix(logs, logs')]_vars

C18_Witness ==
    /\ mpc = "stopped"
    /\ saved.exists
    /\ Len(logs) = 2
    /\ logs[1].src_ip # logs[2].src_ip

\* A step that writes the log file
Flushed == probe'.flushes = probe.flushes + 1

\* C19: after a save the file holds the whole in-memory log; a save when the
\* file already holds the whole log leaves the file as it is; a save after
\* more appends puts a sequence in the file of which the file's earlier
\* content is a prefix.
C19_FlushIdempotent ==
    [][Flushed =>
          /\ saved'.exists
          /\ saved'.content = logs'
          /\ (saved.exists /\ saved.content = logs => saved' = saved)
          /\ (saved.exists => IsPrefix(saved.content, saved'.content))]_vars

C19_Witness ==
    /\ probe.flushes = 3
    /\ saved.exists
    /\ saved.content = logs
    /\ Len(logs) = 2
    /\ logs[1] # logs[2]

\* C20 (as claimed): when a system has stopped, its detection log has been
\* written exactly once, whether or not a detection was logged, and it is not
\* written before; for DDoSDetectionSystem and RealTimeDetectionSystem alike.
C20_FlushedOnceOnStop ==
    probe.flushes = (IF mpc = "stopped" \/ rt.pc = "stopped" THEN 1 ELSE 0)

\* the half of C20 about DDoSDetectionSystem: the file is written exactly once,
\* by stop(), with the whole log, on every way out of sniff
C20_DetectorFlushedOnceOnStop ==
    /\ probe.flushes = (IF mpc = "stopped" THEN 1 ELSE 0)
    /\ saved.exists = (mpc = "stopped")
    /\ mpc = "stopped" => saved.content = logs

C20_DetectorWitness ==
    /\ mpc = "stopped"
    /\ logs = << >>
    /\ saved.exists
    /\ packet_count > 0

\* A step in which a callback begins after running was set to False
LateCall == ~running /\ obs'.late /\ ~obs.late

\* C21: a call of process_packet that begins after running was set to False
\* returns without changing the flow table, the flagged and blocked sets, the
\* detection log or the packet counter.
C21_NoIntakeAfterStop ==
    [][LateCall => /\ UNCHANGED << tableVars, malicious_ips, blocked_ips, logs, packet_count >>
                   /\ intake'.pc = "idle"]_vars

C21_Witness ==
    /\ obs.late
    /\ flows # EmptyMap
    /\ logs # << >>
    /\ mpc = "stopping"

\* C22 (as claimed): once running has been set to False, the cleanup thread
\* begins no pass of cleanup_old_flows over the flow table.
C22_NoPassAfterStop ==
    [][~running => ~(cleaner.pc = "sleep" /\ cleaner'.pc = "scan")]_vars

\* what the code keeps of C22: the loop test that follows running = False ends
\* the thread, so at most the pass after the sleep under way is performed
C22_LoopEndsAfterStop ==
    [][~running /\ cleaner.pc = "loop" /\ cleaner' # cleaner => cleaner'.pc = "exit"]_vars

\* The rules of the heuristic classifier that trigger on a snapshot, in order
Triggered(x) ==
    << RuleHighRate(x), RuleSynFlood(x), RuleBandwidth(x), RuleSmallFast(x), RuleAsymmetric(x) >>

RuleNames ==
    << "High packet rate", "SYN flood pattern", "High bandwidth",
       "Small packets + high rate", "Asymmetric" >>

TriggerCount(x) == Cardinality({i \in 1..5 : Triggered(x)[i]})

\* whether q holds exactly the names of the triggered rules, in rule order
NamesTriggered(x, q) ==
    /\ Len(q) = TriggerCount(x)
    /\ \A i \in 1..5 : Triggered(x)[i] <=> \E j \in 1..Len(q) : q[j] = RuleNames[i]
    /\ \A j, k \in 1..Len(q) :
          j < k => \E a, b \in 1..5 : a < b /\ q[j] = RuleNames[a] /\ q[k] = RuleNames[b]

\* 1500 packets of 500 bytes a second (15 in 10 ms), no SYN, no ACK
HighRateOnly(x) ==
    /\ x.total_packets = 15 /\ x.total_bytes = 15 * 500 /\ x.rate_ms = 10
    /\ x.syn_flag_count = 0 /\ x.ack_flag_count = 0
    /\ x.total_fwd_packets = 0

\* C23: heuristic_detection says malicious exactly when at least one of its
\* five rules triggers; reasons names each triggered rule once, in rule order,
\* and is empty for a benign result; 1500 packets per second of 500 bytes with
\* no SYN and no ACK is malicious for the high packet rate alone.
C23_UnionOfRules ==
    probe.result # NoObject =>
        /\ probe.result.is_malicious = (TriggerCount(probe.x) >= 1)
        /\ NamesTriggered(probe.x, probe.result.reasons)
        /\ ~probe.result.is_malicious => probe.result.reasons = << >>
        /\ HighRateOnly(probe.x) => /\ probe.result.is_malicious
                                    /\ probe.result.reasons = << "High packet rate" >>

C23_Witness ==
    /\ probe.result # NoObject
    /\ probe.result.reasons = << "High packet rate", "Asymmetric" >>

\* whether the result names the rule
Names(result, rule) == \E j \in 1..Len(result.reasons) : result.reasons[j] = rule

\* C24 (as claimed): the SYN-flood rule triggers exactly when the SYN count
\* exceeds 50 and syn/ack exceeds 10, no ACK at all counting as exceeding.
C24_SynRatio ==
    probe.result # NoObject =>
        LET syn == probe.x.syn_flag_count
            ack == probe.x.ack_flag_count
        IN Names(probe.result, "SYN flood pattern")
             = (syn > 50 /\ (ack = 0 \/ syn > 10 * ack))

\* the two cases C24 names: 80 SYN with 2 ACK triggers, 80 SYN with 40 ACK does not
C24_NamedCases ==
    probe.result # NoObject /\ probe.x.syn_flag_count = 80 =>
        /\ probe.x.ack_flag_count = 2 => Names(probe.result, "SYN flood pattern")
        /\ probe.x.ack_flag_count = 40 => ~Names(probe.result, "SYN flood pattern")

\* C25 (as claimed): the asymmetry rule triggers exactly when the forward
\* packet count exceeds 100 and fwd/bwd exceeds 20, no backward packet at all
\* counting as exceeding.
C25_AsymmetryRatio ==
    probe.result # NoObject =>
        LET fwd == probe.x.total_fwd_packets
            bwd == probe.x.total_bwd_packets
        IN Names(probe.result, "Asymmetric")
             = (fwd > 100 /\ (bwd = 0 \/ fwd > 20 * bwd))

\* C26: the confidence of heuristic_detection is min(k / 3, 1) for k triggered
\* rules: 0 exactly for a benign result, positive exactly for a malicious
\* one, within 0..1, and 1 for three or more rules.
C26_Confidence ==
    probe.result # NoObject =>
        LET c == probe.result.confidence
            k == TriggerCount(probe.x)
        IN /\ c[2] > 0
           /\ IF k >= 3 THEN c[1] = c[2] ELSE 3 * c[1] = k * c[2]
           /\ (c[1] = 0) = ~probe.result.is_malicious
           /\ (c[1] > 0) = probe.result.is_malicious
           /\ 0 <= c[1] /\ c[1] <= c[2]

C26_Witness ==
    /\ probe.result # NoObject
    /\ TriggerCount(probe.x) = 4
    /\ probe.result.confidence[1] = probe.result.confidence[2]

\* A step in which the callback ends at a sampling point
SamplingStep == intake.pc = "add" /\ intake'.pc = "idle" /\ obs'.sample # NoObject

\* C27: when the model path fails in a predict call, the call returns what
\* heuristic_detection gives for the same snapshot and the callback ends
\* without an exception; with a model loaded every predict call takes the
\* model path, calls after a failure included.
C27_FallbackPerCall ==
    /\ [][SamplingStep /\ obs'.classify.kind = "fail" =>
             /\ obs'.classify.result = obs'.classify.heuristic
             /\ running => mpc' = "sniff"]_vars
    /\ [](Sampled /\ env.ml => obs.classify.kind \in {"ok", "fail"})

C27_Witness ==
    /\ Sampled
    /\ obs.classify.afterFailure
    /\ obs.classify.kind = "ok"
    /\ obs.classify.result.label = "BENIGN"
    /\ obs.classify.heuristic.is_malicious
    /\ logs # << >>

\* The counters of a flow record
Counters(f) ==
    << f.fwd_packets, f.bwd_packets, f.fwd_bytes, f.bwd_bytes,
       f.syn_count, f.ack_count, f.fin_count, f.rst_count, f.psh_count, f.urg_count >>

\* C28: every record of the flow table that has had a packet has
\* last_time >= start_time, and while a record stays in the table none of
\* its packet counts, byte counts and flag counters decreases.
C28_TimesAndCountsMonotone ==
    /\ [](\A k \in DOMAIN flows :
            flows[k].last_time # NoTime =>
                flows[k].start_time # NoTime /\ flows[k].last_time >= flows[k].start_time)
    /\ [][\A k \in DOMAIN flows \cap DOMAIN flows' :
            \A i \in 1..Len(Counters(flows[k])) :
                Counters(flows'[k])[i] >= Counters(flows[k])[i]]_vars

C28_Witness ==
    \E k \in DOMAIN flows :
        /\ flows[k].last_time > flows[k].start_time
        /\ flows[k].fwd_packets > 0
        /\ flows[k].bwd_packets > 0
        /\ flows[k].syn_count > 1

\* A step in which add_packet is applied to the record of the packet's flow
ApplyStep == intake.pc = "add" /\ intake'.pc = "idle" /\ intake.key \in DOMAIN flows'

\* what add_packet does to the packet's direction (packets, bytes, sizes,
\* inter-arrival times, previous-packet time before and after) ...
DirectionApplied(n0, n1, b0, b1, s0, s1, i0, i1, t0, t1, size, ts) ==
    /\ n1 = n0 + 1
    /\ b1 = b0 + size
    /\ s1 = Append(s0, size)
    /\ i1 = (IF n0 > 0 THEN Append(i0, (ts - t0) * 1000) ELSE i0)
    /\ t1 = ts

\* ... and to the other direction
DirectionKept(n0, n1, b0, b1, s0, s1, i0, i1, t0, t1) ==
    n1 = n0 /\ b1 = b0 /\ s1 = s0 /\ i1 = i0 /\ t1 = t0

\* C29: add_packet sets last_time to the arrival time, adds 1 to the packet
\* count and the size to the byte count of the packet's direction, appends
\* the size to its samples, appends an inter-arrival sample to it exactly
\* when it had a packet already, and leaves the other direction's counts,
\* samples and previous-packet time as they were; so a direction with n
\* packets has max(n - 1, 0) inter-arrival samples.
C29_ApplyFrame ==
    /\ [][ApplyStep =>
            LET b == intake.held
                a == flows'[intake.key]
                size == intake.pkt.size
                ts == intake.ts
            IN /\ a.last_time = ts
               /\ IF intake.fwd
                  THEN /\ DirectionApplied(b.fwd_packets, a.fwd_packets, b.fwd_bytes, a.fwd_bytes,
                                           b.fwd_packet_sizes, a.fwd_packet_sizes,
                                           b.fwd_iat, a.fwd_iat,
                                           b.last_fwd_time, a.last_fwd_time, size, ts)
                       /\ DirectionKept(b.bwd_packets, a.bwd_packets, b.bwd_bytes, a.bwd_bytes,
                                        b.bwd_packet_sizes, a.bwd_packet_sizes,
                                        b.bwd_iat, a.bwd_iat,
                                        b.last_bwd_time, a.last_bwd_time)
                  ELSE /\ DirectionApplied(b.bwd_packets, a.bwd_packets, b.bwd_bytes, a.bwd_bytes,
                                           b.bwd_packet_sizes, a.bwd_packet_sizes,
                                           b.bwd_iat, a.bwd_iat,
                                           b.last_bwd_time, a.last_bwd_time, size, ts)
                       /\ DirectionKept(b.fwd_packets, a.fwd_packets, b.fwd_bytes, a.fwd_bytes,
                                        b.fwd_packet_sizes, a.fwd_packet_sizes,
                                        b.fwd_iat, a.fwd_iat,
                                        b.last_fwd_time, a.last_fwd_time)]_vars
    /\ [](\A k \in DOMAIN flows :
            /\ Len(flows[k].fwd_iat) = (IF flows[k].fwd_packets > 0 THEN flows[k].fwd_packets - 1 ELSE 0)
            /\ Len(flows[k].bwd_iat) = (IF flows[k].bwd_packets > 0 THEN flows[k].bwd_packets - 1 ELSE 0))

C29_Witness ==
    \E k \in DOMAIN flows :
        /\ flows[k].fwd_packets = 2
        /\ flows[k].bwd_packets = 1
        /\ flows[k].fwd_iat # << 0 >>
        /\ flows[k].bwd_iat = << >>
        /\ flows[k].last_bwd_time > flows[k].start_time

\* a number that is 0
IsZero(v) == v[1] = 0 /\ v[2] > 0

AllZero(d) == \A name \in DOMAIN d : IsZero(d[name])

\* C30: for a record without a packet in a direction, every statistic of
\* that direction that extract_features computes is the number 0 (none is an
\* error), and down_up_ratio is 0 when there is no forward packet.
C30_EmptyDirectionIsZero ==
    \A k \in DOMAIN flows :
        /\ flows[k].fwd_packets = 0 =>
              AllZero(fwd_features(flows[k])) /\ IsZero(down_up_ratio(flows[k]))
        /\ flows[k].bwd_packets = 0 => AllZero(bwd_features(flows[k]))

C30_Witness ==
    \E k \in DOMAIN flows :
        /\ flows[k].fwd_packets = 0
        /\ flows[k].bwd_packets = 2
        /\ AllZero(fwd_features(flows[k]))
        /\ ~IsZero(bwd_features(flows[k]).pkt_len_min)
        /\ ~IsZero(bwd_features(flows[k]).packets_per_sec)

\* The keys of the flows of a run that goes on
LiveKeys == {get_flow_key(PktAB), get_flow_key(PktCB)}

\* the flow of key k is in the table and its last packet came at time 0
SeenAtStartOnly(k) == k \in DOMAIN flows /\ flows[k].last_time = 0

\* the flow of key k is gone, or has had a later packet, or the pipeline is
\* no longer running
GoneOrSeenAgain(k) ==
    \/ k \notin DOMAIN flows
    \/ flows[k].last_time # 0
    \/ mpc # "sniff"
    \/ ~running

\* C31 (as claimed): while the pipeline runs, a flow that gets no more
\* packets is eventually removed from the table by the cleanup thread, also
\* while the callback creates and updates other flows.
C31_IdleFlowEvicted ==
    \A k \in LiveKeys : [](SeenAtStartOnly(k) => <>GoneOrSeenAgain(k))

\* what the code keeps of C31: the flow is removed unless the cleanup thread
\* has ended
C31_EvictedWhileThreadLives ==
    \A k \in LiveKeys : [](SeenAtStartOnly(k) => <>(GoneOrSeenAgain(k) \/ cleaner.pc = "dead"))

C31_EvictedWitness ==
    /\ cleaner.pc = "returned"
    /\ cleaner.ret = 1
    /\ flows # EmptyMap
    /\ now = 2 * LongTick

\* A step that is a call of unblock_ip for address ip
UnblockCall(ip) ==
    /\ probe'.unblocks = probe.unblocks + 1
    /\ probe'.unblocked.ip = ip

\* C32: an address in the blocked set is in it after every step that is not
\* a call of unblock_ip for that address: the capture callback, the
\* classification, the cleanup thread and stop() with its flush remove none.
C32_BlockedIsTerminal ==
    [][\A ip \in blocked_ips : ip \in blocked_ips' \/ UnblockCall(ip)]_vars

C32_Witness ==
    /\ mpc = "stopped"
    /\ saved.exists
    /\ flows = EmptyMap
    /\ packet_count > 0
    /\ HostA \in blocked_ips
    /\ HostB \notin blocked_ips
    /\ probe.unblocked # NoObject
    /\ probe.unblocked.ip = HostB
    /\ ~probe.unblocked.inSet
    /\ logs # << >>

\* A step of the del loop (line 258) that removes the record of key k
Removes(k) ==
    /\ cleaner.pc = "delete"
    /\ cleaner.todo # << >>
    /\ Head(cleaner.todo) = k
    /\ k \in DOMAIN flows
    /\ k \notin DOMAIN flows'

\* C33 (as claimed): every record the cleanup thread removes is expired at
\* the moment it is removed (now - last_time > timeout), so a flow that got
\* a packet between the scan and the del keeps its record.
C33_RemovedIsExpired ==
    [][\A k \in DOMAIN flows : Removes(k) => IsExpired(flows[k].last_time, now)]_vars

\* what the code does keep: a removed record was expired when the scan
\* looked at it (the time of the pass is cleaner.at)
C33_RemovedWasExpiredAtScan ==
    [][\A k \in DOMAIN flows : Removes(k) => k \in Range(cleaner.expired)]_vars

\* a record that has just got a packet is on the list of the del loop
C33_FreshOnDelList ==
    /\ cleaner.pc = "delete"
    /\ cleaner.todo # << >>
    /\ Head(cleaner.todo) \in DOMAIN flows
    /\ flows[Head(cleaner.todo)].last_time = now

\* the two endpoints of the probed packet differ (in address or in port)
TwoEndpoints ==
    /\ probe.p.l3 = "ip"
    /\ << probe.p.src, PortsOf(probe.p)[1] >> # << probe.p.dst, PortsOf(probe.p)[2] >>

\* C34 (as claimed): of an IP packet and the packet with its endpoints swapped,
\* is_forward says forward for exactly one, also when the two endpoints have
\* the same address and differ only in port.
C34_ExactlyOneForward ==
    probe.done /\ TwoEndpoints => probe.fwd # probe.swappedFwd

\* C34: of an IP packet and the packet with its endpoints swapped, is_forward
\* says forward for exactly one when the two addresses differ, and forward
\* for both when the two addresses are the same.
C34_ExactlyOneForwardByAddress ==
    probe.done /\ probe.p.l3 = "ip" =>
        IF probe.p.src # probe.p.dst
        THEN probe.fwd # probe.swappedFwd
        ELSE probe.fwd /\ probe.swappedFwd

\* a packet sent by the key's second endpoint, the swapped packet by its first
C34_Witness ==
    /\ probe.done
    /\ probe.p.l3 = "ip"
    /\ probe.p.src # probe.p.dst
    /\ ~probe.fwd
    /\ probe.swappedFwd

\* a conversation of one address with itself on two ports
C34_SameAddressWitness ==
    /\ probe.done
    /\ TwoEndpoints
    /\ probe.p.src = probe.p.dst
    /\ probe.fwd
    /\ probe.swappedFwd

\* the first address of the keys of the traffic offered
KeyFirstAddresses ==
    {get_flow_key(p)[1] : p \in {q \in env.menu : q.l3 = "ip"}}

\* the endpoint named first in a log record is not the larger one
FirstEndpointSmaller(e) ==
    \/ PairLess(e.src_ip, e.src_port, e.dst_ip, e.dst_port)
    \/ << e.src_ip, e.src_port >> = << e.dst_ip, e.dst_port >>

\* C35: the address the handler flags, gives to block_ip and logs as source
\* is the first address of the flow's key, the smaller (address, port)
\* endpoint, whichever endpoint sent the packets.
C35_FlaggedIsKeyFirstAddress ==
    /\ malicious_ips \subseteq KeyFirstAddresses
    /\ blocked_ips \subseteq KeyFirstAddresses
    /\ \A i \in 1..Len(logs) : FirstEndpointSmaller(logs[i])
    /\ obs.sample # NoObject /\ obs.sample.attempted =>
          /\ obs.call.ip = obs.sample.key[1]
          /\ obs.sample.key[1] \in malicious_ips
          /\ logs[Len(logs)].src_ip = obs.sample.key[1]

\* a verdict on packets sent by the key's second endpoint
C35_Witness ==
    /\ obs.sample # NoObject
    /\ obs.sample.attempted
    /\ obs.sample.sender # obs.sample.key[1]
    /\ obs.sample.key[1] \in blocked_ips
    /\ obs.sample.sender \notin malicious_ips

\* C36: in every state the blocked set is within the flagged set and
\* detection_count is the size of the flagged set and the number of log
\* records; no step takes an address out of the flagged set.
C36_FlaggedAccounting ==
    /\ [](/\ blocked_ips \subseteq malicious_ips
          /\ detection_count = Cardinality(malicious_ips)
          /\ detection_count = Len(logs))
    /\ [][malicious_ips \subseteq malicious_ips']_vars

\* two addresses flagged, one of them blocked, the other's command failed
C36_Witness ==
    /\ Cardinality(malicious_ips) = 2
    /\ Cardinality(blocked_ips) = 1
    /\ detection_count = 2
    /\ Len(logs) = 2

\* a flagged address whose flow has been evicted
C36_FlaggedAfterEviction ==
    /\ malicious_ips # {}
    /\ flows = EmptyMap
    /\ detection_count = 1

\* the step is a block_ip call for ip whose last command ended with exit code 0
BlockedByExitZero(ip) ==
    /\ probe'.last # NoObject
    /\ probe'.last.ip = ip
    /\ probe'.last.outcomes # << >>
    /\ probe'.last.outcomes[Len(probe'.last.outcomes)] = "ok"

\* C37: an address enters a filter's blocked set only in a block_ip call for
\* it whose enforcement command ended with exit code 0, and unblock_ip for it
\* whose command ended takes it out; IPTablesFilter's set never holds a
\* loopback address or 0.0.0.0.
C37_BlockedByExitZeroOnly ==
    /\ [][/\ \A ip \in blocked_ips' \ blocked_ips : BlockedByExitZero(ip)
          /\ \A ip \in rt'.blocked_ips \ rt.blocked_ips : BlockedByExitZero(ip)]_vars
    /\ [](probe.unblocked # NoObject /\ probe.unblocked.outcome # "timeout"
             => probe.unblocked.ip \notin blocked_ips)
    /\ [](\A ip \in blocked_ips : ~IsRefused(ip))

\* an address blocked by exit code 0 in the call after a failed command for it
C37_Witness ==
    /\ probe.subject = "iptables"
    /\ blocked_ips = {HostA}
    /\ probe.last # NoObject
    /\ probe.last.ip = HostA
    /\ probe.last.outcomes = << "ok" >>
    /\ probe.prev # NoObject
    /\ probe.prev.ip = HostA
    /\ ~probe.prev.ret
    /\ probe.prev.cmds = 1

\* XDPFilter: the address blocked by the iptables fallback after xdp-filter failed
C37_FallbackWitness ==
    /\ probe.subject = "xdp"
    /\ probe.last # NoObject
    /\ probe.last.outcomes = << "nonzero", "ok" >>
    /\ probe.last.ip \in rt.blocked_ips
    /\ ~probe.last.inSet

\* a record no packet has been applied to
Pristine(f) ==
    /\ f.start_time = NoTime /\ f.last_time = NoTime
    /\ f.last_fwd_time = NoTime /\ f.last_bwd_time = NoTime
    /\ \A i \in 1..Len(Counters(f)) : Counters(f)[i] = 0
    /\ f.fwd_packet_sizes = << >> /\ f.bwd_packet_sizes = << >>
    /\ f.fwd_iat = << >> /\ f.bwd_iat = << >>

\* A step in which the callback finds no record for the packet's key
\* (line 238); after a first packet of the one conversation of a run, the
\* record is missing because the cleanup thread has removed it
CreateStep ==
    /\ intake.pc = "idle"
    /\ intake'.pc = "lookup"
    /\ intake'.key \notin DOMAIN flows

\* C38: a packet whose key has no record (never seen, or evicted) gets a new
\* record with nothing of an earlier one in it; once the packet is applied
\* the record's start_time and last_time are the packet's time, it counts
\* one packet, has no inter-arrival sample, and is not at a sampling point.
C38_FreshAfterEviction ==
    [][/\ CreateStep =>
            /\ intake'.key \in DOMAIN flows'
            /\ Pristine(flows'[intake'.key])
       /\ ApplyStep /\ Pristine(intake.held) =>
            LET f == flows'[intake.key]
            IN /\ f.start_time = intake.ts
               /\ f.last_time = intake.ts
               /\ f.fwd_packets + f.bwd_packets = 1
               /\ f.fwd_bytes + f.bwd_bytes = intake.pkt.size
               /\ f.fwd_iat = << >> /\ f.bwd_iat = << >>
               /\ {f.last_fwd_time, f.last_bwd_time} = {intake.ts, NoTime}
               /\ ~AtSamplingPoint(f)
               /\ obs'.sample = NoObject]_vars

\* the one conversation of the run has its second record: the first was
\* evicted, and the packet that came after counts as the first
C38_Witness ==
    /\ Cardinality(env.menu) = 1
    /\ packet_count >= 2
    /\ intake.pc = "idle"
    /\ \E k \in DOMAIN flows :
          /\ flows[k].start_time >= LongTick
          /\ flows[k].last_time = flows[k].start_time
          /\ flows[k].fwd_packets + flows[k].bwd_packets = 1

\* the number of rows exported for the flow created as number id
Exports(id) ==
    Cardinality({i \in 1..Len(probe.completed_flows) : probe.completed_flows[i] = id})

\* C39 (as claimed): each flow of flowmeter.FlowMeter is exported at most
\* once in a run, also when stop() exports the flows left and a cleanup pass
\* runs during or after stop(), and no export is attempted once the CSV
\* file is closed.
C39_ExportedAtMostOnce ==
    /\ \A id \in 1..probe.flow_count : Exports(id) <= 1
    /\ ~probe.late

\* what holds: while the capture runs (before stop() begins) no flow has two rows
C39_OnceWhileCapturing ==
    mpc = "sniff" => /\ \A id \in 1..probe.flow_count : Exports(id) <= 1
                     /\ ~probe.late

\* a flow with two rows: one written by stop(), one by the cleanup pass
C39_TwoRows ==
    \E id \in 1..probe.flow_count : Exports(id) = 2

\* the cleanup pass has called _export_flow after stop() closed the file
C39_ExportAfterClose ==
    probe.late /\ mpc = "stopped"

\* C40 (as claimed): under every interleaving with cleanup_old_flows, the
\* entry packet_handler reads after update_flow is the entry just updated:
\* packet_count >= 1 with start_time and last_seen set, so the every-10th
\* check and extract_features never meet an entry the defaultdict has made.
C40_ReadsUpdatedEntry ==
    intake.pc \in {"check", "raised"} =>
        /\ intake.held.packet_count >= 1
        /\ intake.held.start_time # NoTime
        /\ intake.held.last_seen # NoTime

\* extract_features has raised on an entry made by the defaultdict
C40_RaisedOnEmptyEntry ==
    /\ intake.pc = "raised"
    /\ intake.held = flow_stats_default
    /\ rt.pc = "stopping"

\* what holds: when the key is still in the dict at line 288, the entry read
\* is the updated one
C40_UpdatedWhenStillHeld ==
    [][intake.pc = "read" /\ intake'.pc = "check" /\ intake.key \in DOMAIN rt.flows =>
          /\ intake'.held.packet_count >= 1
          /\ intake'.held.last_seen = intake.ts]_vars

====
